---- MODULE Spec2Model ----
(***************************************************************************)
(* Smart Find & Replace backend (Express + Contentstack + Gemini).         *)
(* Model of the replacement engine of src/unnamed/part_001 (the current    *)
(* revision of index.js): the command parser, the deep replacement         *)
(* transformer, the field update resolver, the brand compliance validator  *)
(* and the two request handlers POST /replace and POST /smart-replace      *)
(* with the process-wide session credential.                               *)
(*                                                                         *)
(* JavaScript strings are TLA+ strings; a character is a string of         *)
(* length 1.  Regular expressions are small syntax trees matched by a      *)
(* backtracking matcher that lists its successes in priority order, so     *)
(* that the first success is the match the JavaScript engine reports.      *)
(***************************************************************************)
EXTENDS Integers, Sequences, FiniteSets, TLC

\* The({e(x) : x \in {v}}) is e(v) with v computed once: a local constant
The(S) == CHOOSE x \in S : TRUE

(***************************************************************************)
(* Characters and strings                                                  *)
(***************************************************************************)
UpperSeq == <<"A","B","C","D","E","F","G","H","I","J","K","L","M",
              "N","O","P","Q","R","S","T","U","V","W","X","Y","Z">>
LowerSeq == <<"a","b","c","d","e","f","g","h","i","j","k","l","m",
              "n","o","p","q","r","s","t","u","v","w","x","y","z">>
DigitSeq == <<"0","1","2","3","4","5","6","7","8","9">>

Range(f) == {f[i] : i \in DOMAIN f}

UpperChars == Range(UpperSeq)
LowerChars == Range(LowerSeq)
DigitChars == Range(DigitSeq)
\* \w of the pattern language
WordChars == UpperChars \cup LowerChars \cup DigitChars \cup {"_"}
\* \s of the pattern language (the members a request body can carry here)
SpaceChars == {" ", "\t", "\n"}

Ch(s, i) == SubSeq(s, i, i)

ToLowerCh(c) ==
  IF c \in UpperChars
    THEN LowerSeq[CHOOSE i \in DOMAIN UpperSeq : UpperSeq[i] = c]
    ELSE c

ToUpperCh(c) ==
  IF c \in LowerChars
    THEN UpperSeq[CHOOSE i \in DOMAIN LowerSeq : LowerSeq[i] = c]
    ELSE c

\* character by character; the string is halved to keep the nesting shallow
RECURSIVE toLowerCase(_)
toLowerCase(s) ==
  IF Len(s) = 0 THEN ""
  ELSE IF Len(s) = 1 THEN ToLowerCh(s)
  ELSE toLowerCase(SubSeq(s, 1, Len(s) \div 2))
       \o toLowerCase(SubSeq(s, Len(s) \div 2 + 1, Len(s)))

\* String.prototype.includes
includes(s, sub) ==
  \E i \in 1..(Len(s) - Len(sub) + 1) : SubSeq(s, i, i + Len(sub) - 1) = sub

\* String.prototype.trim
IsSpaceAt(s, i) == Ch(s, i) \in SpaceChars

\* from the first character that is not white space
trimStart(s) ==
  SubSeq(s, CHOOSE b \in 1..(Len(s) + 1) :
              /\ b = Len(s) + 1 \/ ~IsSpaceAt(s, b)
              /\ \A j \in 1..(b - 1) : IsSpaceAt(s, j),
         Len(s))

\* to the last character that is not white space
trimEnd(s) ==
  SubSeq(s, 1, CHOOSE e \in 0..Len(s) :
                 /\ e = 0 \/ ~IsSpaceAt(s, e)
                 /\ \A j \in (e + 1)..Len(s) : IsSpaceAt(s, j))

trim(s) == trimEnd(trimStart(s))

\* the number of occurrences of the character c in s
CountChar(s, c) == Cardinality({i \in 1..Len(s) : Ch(s, i) = c})

\* s.split(' ').length: one more than the number of single spaces

splitSpaceLength(s) == CountChar(s, " ") + 1

(***************************************************************************)
(* Regular expressions: syntax trees                                       *)
(***************************************************************************)
RxSet(cs)    == [k |-> "set", cs |-> cs, neg |-> FALSE]
RxNotSet(cs) == [k |-> "set", cs |-> cs, neg |-> TRUE]
RxAny        == [k |-> "any"]
RxWb         == [k |-> "wb"]
RxBol        == [k |-> "bol"]
RxSeq(xs)    == [k |-> "seq", xs |-> xs]
RxAlt(xs)    == [k |-> "alt", xs |-> xs]
RxStar(x)    == [k |-> "rep", x |-> x, min |-> 0]
RxPlus(x)    == [k |-> "rep", x |-> x, min |-> 1]
RxAtLeast(x, n) == [k |-> "rep", x |-> x, min |-> n]
RxGroup(n, x) == [k |-> "grp", n |-> n, x |-> x]
\* a literal word: the sequence of its characters
RxLit(w)     == RxSeq([i \in 1..Len(w) |-> RxSet({Ch(w, i)})])

NoCaps == <<<<0, 0>>, <<0, 0>>>>

\* one character against a class, with or without the i flag
ClassHas(node, c, ci) ==
  LET hit == IF ci THEN \E d \in {c, ToLowerCh(c), ToUpperCh(c)} : d \in node.cs
                   ELSE c \in node.cs
  IN  hit # node.neg

IsWordAt(s, i) == i >= 1 /\ i <= Len(s) /\ Ch(s, i) \in WordChars

\* does the one-character pattern node (a class or ".") accept position p of s?
ClassAt(node, s, ci, p) ==
  /\ p <= Len(s)
  /\ IF node.k = "any" THEN Ch(s, p) # "\n" ELSE ClassHas(node, Ch(s, p), ci)

\* where the longest run of characters accepted by node, begun at pos, ends
RunEnd(node, s, ci, pos) ==
  CHOOSE e \in pos..(Len(s) + 1) :
    /\ ~ClassAt(node, s, ci, e)
    /\ \A j \in pos..(e - 1) : ClassAt(node, s, ci, j)

\* the greedy repetition of a one-character pattern from state st: the
\* longest run first, then one character less at a time, down to node.min
ClassRun(node, s, ci, st) ==
  The({IF e - st.pos < node.min THEN <<>>
       ELSE [j \in 1..(e - st.pos - node.min + 1) |-> [st EXCEPT !.pos = e - j + 1]] :
       e \in {RunEnd(node.x, s, ci, st.pos)}})

(***************************************************************************)
(* The matcher.  A state is [pos, caps].  Rx lists, in the engine's        *)
(* backtracking order, the states in which a pattern can end.  Its modes:  *)
(*   "one"     node started in state sts[1]                                *)
(*   "many"    node started in each state of sts, in order                 *)
(*   "seq"     the items i.. of the sequence node, started in sts          *)
(*   "alt"     the alternatives i.. of node, started in sts[1]             *)
(*   "rep"     the greedy repetition node after n iterations, in sts[1]    *)
(*   "repmany" the repetition continued from each state of sts that lies   *)
(*             beyond position i (an iteration that consumed nothing is    *)
(*             not continued)                                              *)
(* A list of states is worked through by halves, which keeps the nesting   *)
(* of the evaluation shallow; the order of the results is that of the list.*)
(***************************************************************************)
FirstHalf(sts) == SubSeq(sts, 1, Len(sts) \div 2)
SecondHalf(sts) == SubSeq(sts, Len(sts) \div 2 + 1, Len(sts))

RECURSIVE Rx(_, _, _, _, _, _, _)
Rx(mode, node, s, ci, sts, i, n) ==
  CASE mode = "many" ->
         IF sts = <<>> THEN <<>>
         ELSE IF Len(sts) = 1 THEN Rx("one", node, s, ci, sts, 0, 0)
         ELSE Rx("many", node, s, ci, FirstHalf(sts), 0, 0)
              \o Rx("many", node, s, ci, SecondHalf(sts), 0, 0)
    [] mode = "seq" ->
         IF i > Len(node.xs) \/ sts = <<>> THEN sts
         ELSE Rx("seq", node, s, ci, Rx("many", node.xs[i], s, ci, sts, 0, 0),
                 i + 1, 0)
    [] mode = "alt" ->
         IF i > Len(node.xs) THEN <<>>
         ELSE Rx("one", node.xs[i], s, ci, sts, 0, 0)
              \o Rx("alt", node, s, ci, sts, i + 1, 0)
    [] mode = "repmany" ->
         IF sts = <<>> THEN <<>>
         ELSE IF Len(sts) = 1
           THEN (IF sts[1].pos > i THEN Rx("rep", node, s, ci, sts, 0, n) ELSE <<>>)
         ELSE Rx("repmany", node, s, ci, FirstHalf(sts), i, n)
              \o Rx("repmany", node, s, ci, SecondHalf(sts), i, n)
    [] mode = "rep" ->
         Rx("repmany", node, s, ci, Rx("one", node.x, s, ci, sts, 0, 0),
            sts[1].pos, n + 1)
         \o (IF n >= node.min THEN sts ELSE <<>>)
    [] mode = "one" ->
         LET st == sts[1]
         IN  CASE node.k \in {"set", "any"} ->
                    IF ClassAt(node, s, ci, st.pos)
                      THEN <<[st EXCEPT !.pos = @ + 1]>> ELSE <<>>
               [] node.k = "wb" ->
                    IF IsWordAt(s, st.pos - 1) # IsWordAt(s, st.pos)
                      THEN <<st>> ELSE <<>>
               [] node.k = "bol" ->
                    IF st.pos = 1 THEN <<st>> ELSE <<>>
               [] node.k = "seq" -> Rx("seq", node, s, ci, sts, 1, 0)
               [] node.k = "alt" -> Rx("alt", node, s, ci, sts, 1, 0)
               [] node.k = "rep" ->
                    IF node.x.k \in {"set", "any"} THEN ClassRun(node, s, ci, st)
                    ELSE Rx("rep", node, s, ci, sts, 0, 0)
               [] node.k = "grp" ->
                    LET rs == Rx("one", node.x, s, ci, sts, 0, 0)
                    IN  [j \in 1..Len(rs) |->
                           [rs[j] EXCEPT !.caps[node.n] = <<st.pos, rs[j].pos>>]]

RxOne(node, s, ci, st) == Rx("one", node, s, ci, <<st>>, 0, 0)

NoMatch == [found |-> FALSE, start |-> 0, end |-> 0, caps |-> NoCaps]

\* RegExp.prototype.exec from lastIndex `from` (1-based): the leftmost start
\* at which the pattern matches, with the engine's first success there
MatchesAt(re, s, ci, i) == RxOne(re, s, ci, [pos |-> i, caps |-> NoCaps]) # <<>>

RxExec(re, s, ci, from) ==
  The({IF start > Len(s) + 1 THEN NoMatch
       ELSE The({[found |-> TRUE, start |-> start, end |-> rs[1].pos,
                  caps |-> rs[1].caps] :
                 rs \in {RxOne(re, s, ci, [pos |-> start, caps |-> NoCaps])}}) :
       start \in {CHOOSE i \in from..(Len(s) + 2) :
                    /\ i = Len(s) + 2 \/ MatchesAt(re, s, ci, i)
                    /\ \A j \in from..(i - 1) : ~MatchesAt(re, s, ci, j)}})

\* where the search resumes after the match m: after an empty match, one
\* character further
ResumeAfter(m) == IF m.end = m.start THEN m.end + 1 ELSE m.end

\* the next matches of a g-flag pattern from lastIndex `from`, at most
\* `count` of them, left to right, and the lastIndex they leave; the count
\* is halved to keep the nesting of the evaluation shallow
RECURSIVE RxSomeMatches(_, _, _, _, _)
RxSomeMatches(re, s, ci, from, count) ==
  IF from > Len(s) + 1 \/ count = 0 THEN [ms |-> <<>>, from |-> from]
  ELSE IF count = 1
    THEN The({IF m.found THEN [ms |-> <<m>>, from |-> ResumeAfter(m)]
              ELSE [ms |-> <<>>, from |-> Len(s) + 2] :
              m \in {RxExec(re, s, ci, from)}})
  ELSE The({The({[ms |-> a.ms \o b.ms, from |-> b.from] :
                 b \in {RxSomeMatches(re, s, ci, a.from, count - count \div 2)}}) :
            a \in {RxSomeMatches(re, s, ci, from, count \div 2)}})

\* every match of a g-flag pattern (there are at most Len(s) + 1)
RxAllMatches(re, s, ci, from) == RxSomeMatches(re, s, ci, from, Len(s) + 1).ms

Matched(s, m) == SubSeq(s, m.start, m.end - 1)
Capture(s, m, n) == SubSeq(s, m.caps[n][1], m.caps[n][2] - 1)

\* the result of String.prototype.replace given the matches and, for each,
\* the text that takes its place: the text between the matches lo..hi, each
\* preceded by what lies between it and the match before
RECURSIVE SplicePieces(_, _, _, _, _)
SplicePieces(s, ms, reps, lo, hi) ==
  IF lo > hi THEN ""
  ELSE IF lo = hi
    THEN SubSeq(s, IF lo = 1 THEN 1 ELSE ms[lo - 1].end, ms[lo].start - 1)
         \o reps[lo]
  ELSE SplicePieces(s, ms, reps, lo, (lo + hi) \div 2)
       \o SplicePieces(s, ms, reps, (lo + hi) \div 2 + 1, hi)

Splice(s, ms, reps) ==
  SplicePieces(s, ms, reps, 1, Len(ms))
  \o SubSeq(s, IF Len(ms) = 0 THEN 1 ELSE ms[Len(ms)].end, Len(s))

(***************************************************************************)
(* String.prototype.replace(pattern, replacement string): in a replacement *)
(* STRING, "$$" stands for "$", "$&" for the matched text, "$`" for the    *)
(* text before the match and "$'" for the text after it.  (The patterns    *)
(* built from findText below have no capturing group, so "$1".."$99" stay  *)
(* as written.)                                                            *)
(***************************************************************************)
\* the backquote character (written alone in a string literal it would open
\* a quotation that runs on to the next apostrophe)
Backquote == SubSeq("`'", 1, 1)
Apostrophe == "'"

RECURSIVE ExpandReplacement(_, _, _)
ExpandReplacement(repl, s, m) ==
  IF Len(repl) = 0 THEN ""
  ELSE IF Ch(repl, 1) = "$" /\ Len(repl) >= 2
          /\ Ch(repl, 2) \in {"$", "&", Backquote, Apostrophe}
    THEN (CASE Ch(repl, 2) = "$" -> "$"
            [] Ch(repl, 2) = "&" -> Matched(s, m)
            [] Ch(repl, 2) = Backquote -> SubSeq(s, 1, m.start - 1)
            [] Ch(repl, 2) = Apostrophe -> SubSeq(s, m.end, Len(s)))
         \o ExpandReplacement(SubSeq(repl, 3, Len(repl)), s, m)
    ELSE Ch(repl, 1) \o ExpandReplacement(SubSeq(repl, 2, Len(repl)), s, m)

replaceWithString(s, re, ci, repl) ==
  The({Splice(s, ms, [i \in 1..Len(ms) |-> ExpandReplacement(repl, s, ms[i])]) :
       ms \in {RxAllMatches(re, s, ci, 1)}})

(***************************************************************************)
(* new RegExp(findText, 'gi'): findText is handed to the pattern compiler  *)
(* as written.  Of the pattern metacharacters, the find texts of this      *)
(* model use "." (any character but a line break) and "(" (which opens a   *)
(* group; with no ")" the compiler throws SyntaxError).  Every other       *)
(* character of the model's find texts is a pattern for itself.            *)
(***************************************************************************)
RegExpThrows(findText) ==
  CountChar(findText, "(") # CountChar(findText, ")")

RegExpOf(findText) ==
  RxSeq([i \in 1..Len(findText) |->
           IF Ch(findText, i) = "." THEN RxAny ELSE RxSet({Ch(findText, i)})])

(***************************************************************************)
(* Entity patterns (part_001 lines 587-590 and 678-682)                    *)
(***************************************************************************)
Quotes == {"\"", "'"}
RxWs == RxSet(SpaceChars)
RxUpper == RxSet(UpperChars)
RxLower == RxSet(LowerChars)

\* /\b[A-Za-z0-9._%+-]+@[A-Za-z0-9.-]+\.[A-Z|a-z]{2,}\b/g
emailRegex ==
  RxSeq(<<RxWb,
          RxPlus(RxSet(UpperChars \cup LowerChars \cup DigitChars
                       \cup {".", "_", "%", "+", "-"})),
          RxSet({"@"}),
          RxPlus(RxSet(UpperChars \cup LowerChars \cup DigitChars \cup {".", "-"})),
          RxSet({"."}),
          RxAtLeast(RxSet(UpperChars \cup LowerChars \cup {"|"}), 2),
          RxWb>>)

\* /\b[A-Z][a-z]+\s[A-Z][a-z]+\b/g
personRegex ==
  RxSeq(<<RxWb, RxUpper, RxPlus(RxLower), RxWs, RxUpper, RxPlus(RxLower), RxWb>>)

\* /\b[A-Z][a-z]+(?:\s[A-Z][a-z]+)*\s(?:Inc|Corp|LLC|Company|Ltd)\b/g
companyRegex ==
  RxSeq(<<RxWb, RxUpper, RxPlus(RxLower),
          RxStar(RxSeq(<<RxWs, RxUpper, RxPlus(RxLower)>>)),
          RxWs,
          RxAlt(<<RxLit("Inc"), RxLit("Corp"), RxLit("LLC"),
                  RxLit("Company"), RxLit("Ltd")>>),
          RxWb>>)

\* /<a[^>]*href="([^"]*)"[^>]*>([^<]*)<\/a>/gi
linkRegex ==
  RxSeq(<<RxLit("<a"), RxStar(RxNotSet({">"})), RxLit("href=\""),
          RxGroup(1, RxStar(RxNotSet({"\""}))), RxSet({"\""}),
          RxStar(RxNotSet({">"})), RxSet({">"}),
          RxGroup(2, RxStar(RxNotSet({"<"}))), RxLit("</a>")>>)

(***************************************************************************)
(* deepReplace on a string (part_001 lines 230-246)                        *)
(***************************************************************************)
\* mutation of replaceEntity: the replacer does not compare the match with
\* findText
replaceEntity_always(s, re, findText, replaceText) ==
  The({Splice(s, ms, [i \in 1..Len(ms) |-> replaceText]) :
       ms \in {RxAllMatches(re, s, FALSE, 1)}})

\* result.replace(entityRegex, (match) => match === findText ? replaceText : match)
replaceEntity(s, re, findText, replaceText) ==
  The({Splice(s, ms,
              [i \in 1..Len(ms) |->
                 IF Matched(s, ms[i]) = findText THEN replaceText
                 ELSE Matched(s, ms[i])]) :
       ms \in {RxAllMatches(re, s, FALSE, 1)}})

\* the replacer of the link pass, for one anchor
linkReplacer(s, m, findText, replaceText) ==
  The({IF href = findText
         THEN "<a href=\"" \o replaceText \o "\">" \o text \o "</a>"
       ELSE IF text = findText
         THEN "<a href=\""
              \o (IF includes(toLowerCase(href), toLowerCase(findText))
                    THEN replaceWithString(href, RegExpOf(findText), TRUE, replaceText)
                    ELSE href)
              \o "\">" \o replaceText \o "</a>"
       ELSE Matched(s, m) :
       href \in {Capture(s, m, 1)}, text \in {Capture(s, m, 2)}})

replaceLinks(s, findText, replaceText) ==
  The({Splice(s, ms,
              [i \in 1..Len(ms) |-> linkReplacer(s, ms[i], findText, replaceText)]) :
       ms \in {RxAllMatches(linkRegex, s, TRUE, 1)}})

\* mutation of passLiteral: the text put in is lower-cased
passLiteral_lowered(s, findText, replaceText) ==
  replaceWithString(s, RegExpOf(findText), TRUE, toLowerCase(replaceText))

\* pass 1: obj.replace(new RegExp(findText, 'gi'), replaceText)
passLiteral(s, findText, replaceText) ==
  replaceWithString(s, RegExpOf(findText), TRUE, replaceText)

\* result after lines 231-234: what the link pass of line 235 is applied to
beforeLinks(s, findText, replaceText) ==
  The({replaceEntity(r3, companyRegex, findText, replaceText) :
       r3 \in {replaceEntity(r2, personRegex, findText, replaceText) :
       r2 \in {replaceEntity(r1, emailRegex, findText, replaceText) :
       r1 \in {passLiteral(s, findText, replaceText)}}}})

deepReplaceString(s, findText, replaceText) ==
  The({replaceLinks(r4, findText, replaceText) :
       r4 \in {beforeLinks(s, findText, replaceText)}})

(***************************************************************************)
(* Entries: JSON values as tagged nodes.  A mapping is a function from     *)
(* its keys; a sequence is a tuple.                                        *)
(***************************************************************************)
Str(s)  == [t |-> "str", v |-> s]
Num(n)  == [t |-> "num", v |-> n]
Null    == [t |-> "null", v |-> 0]
Bool(b) == [t |-> "bool", v |-> b]
Arr(xs) == [t |-> "seq", v |-> xs]
Obj(f)  == [t |-> "map", v |-> f]

\* part_001 line 252
ProtectedKeys == {"uid", "created_at", "_version", "created_by", "updated_at",
                  "updated_by"}

\* mutation of IsProtectedKey: a key list that leaves uid out
IsProtectedKey_noUid(key) == key \in ProtectedKeys \ {"uid"}

\* [...].includes(key), line 252
IsProtectedKey(key) == key \in ProtectedKeys

\* does the traversal of deepReplace reach a string (and so build the pattern)?
RECURSIVE ReachesString(_)
ReachesString(obj) ==
  CASE obj.t = "str" -> TRUE
    [] obj.t = "seq" -> \E i \in DOMAIN obj.v : ReachesString(obj.v[i])
    [] obj.t = "map" -> \E key \in DOMAIN obj.v :
                           ~IsProtectedKey(key) /\ ReachesString(obj.v[key])
    [] OTHER -> FALSE

\* mutation of deepReplaceValue: strings are rewritten, any other value is
\* returned as null
deepReplaceValue_leaves(obj, findText, replaceText) ==
  IF obj.t = "str" THEN Str(deepReplaceString(obj.v, findText, replaceText))
  ELSE Null

\* the value deepReplace returns when no pattern fails to compile
RECURSIVE deepReplaceValue(_, _, _)
deepReplaceValue(obj, findText, replaceText) ==
  CASE obj.t = "str" -> Str(deepReplaceString(obj.v, findText, replaceText))
    [] obj.t = "seq" ->
         Arr([i \in DOMAIN obj.v |-> deepReplaceValue(obj.v[i], findText, replaceText)])
    [] obj.t = "map" ->
         Obj([key \in DOMAIN obj.v |->
                IF IsProtectedKey(key) THEN obj.v[key]
                ELSE deepReplaceValue(obj.v[key], findText, replaceText)])
    [] OTHER -> obj

\* deepReplace: either the new tree, or the SyntaxError of new RegExp thrown
\* at the first string the traversal reaches
deepReplace(obj, findText, replaceText) ==
  IF RegExpThrows(findText) /\ ReachesString(obj)
    THEN [threw |-> TRUE, value |-> Null]
    ELSE [threw |-> FALSE, value |-> deepReplaceValue(obj, findText, replaceText)]

(***************************************************************************)
(* applyFieldUpdates (part_001 lines 263-332).  entry is the function of a *)
(* mapping; fieldUpdates is the sequence of <<fieldName, newValue>> pairs  *)
(* of Object.entries, in insertion order.                                  *)
(***************************************************************************)
AliasGroups ==
  << [names   |-> {"contact", "email", "contact_email", "contact_info"},
      members |-> <<"email", "contact", "contact_email", "contact_info">>],
     [names   |-> {"company", "organization", "company_name", "org"},
      members |-> <<"company", "organization", "company_name", "org">>],
     [names   |-> {"title", "heading", "name"},
      members |-> <<"title", "heading", "name">>],
     [names   |-> {"designation", "role", "position", "job_title"},
      members |-> <<"designation", "role", "position", "job_title">>],
     [names   |-> {"author", "writer", "created_by_name"},
      members |-> <<"author", "writer", "created_by_name">>],
     [names   |-> {"description", "summary", "excerpt"},
      members |-> <<"description", "summary", "excerpt">>] >>

IsAlias(lowerFieldName) ==
  \E g \in DOMAIN AliasGroups : lowerFieldName \in AliasGroups[g].names

GroupOf(lowerFieldName) ==
  AliasGroups[CHOOSE g \in DOMAIN AliasGroups : lowerFieldName \in AliasGroups[g].names]

\* entry[key] = newValue
SetKey(entry, key, newValue) ==
  [k \in DOMAIN entry \cup {key} |-> IF k = key THEN newValue ELSE entry[k]]

\* mutation of setFirstMember: the last member key the entry has is set
setFirstMember_last(entry, members, newValue) ==
  IF \E i \in DOMAIN members : members[i] \in DOMAIN entry
    THEN SetKey(entry,
                members[CHOOSE i \in DOMAIN members :
                          /\ members[i] \in DOMAIN entry
                          /\ \A j \in (i + 1)..Len(members) :
                               members[j] \notin DOMAIN entry],
                newValue)
    ELSE entry

\* the if / else-if chain over one group's member keys
setFirstMember(entry, members, newValue) ==
  IF \E i \in DOMAIN members : members[i] \in DOMAIN entry
    THEN SetKey(entry,
                members[CHOOSE i \in DOMAIN members :
                          /\ members[i] \in DOMAIN entry
                          /\ \A j \in 1..(i - 1) : members[j] \notin DOMAIN entry],
                newValue)
    ELSE entry

\* one iteration of the loop over Object.entries(fieldUpdates)
applyFieldUpdate(entry, fieldName, newValue) ==
  LET lowerFieldName == toLowerCase(fieldName)
  IN  IF IsAlias(lowerFieldName)
        THEN setFirstMember(entry, GroupOf(lowerFieldName).members, newValue)
      ELSE IF fieldName \in DOMAIN entry THEN SetKey(entry, fieldName, newValue)
      ELSE IF lowerFieldName \in DOMAIN entry THEN SetKey(entry, lowerFieldName, newValue)
      ELSE SetKey(entry, fieldName, newValue)

\* the entry after the first n iterations
RECURSIVE applyFirst(_, _, _)
applyFirst(entry, fieldUpdates, n) ==
  IF n = 0 THEN entry
  ELSE applyFieldUpdate(applyFirst(entry, fieldUpdates, n - 1),
                        fieldUpdates[n][1], fieldUpdates[n][2])

applyFieldUpdates(entry, fieldUpdates) ==
  applyFirst(entry, fieldUpdates, Len(fieldUpdates))

(***************************************************************************)
(* parseSmartPrompt (part_001 lines 107-144)                               *)
(***************************************************************************)
RxQuote == RxSet(Quotes)
RxQuoted(n) == RxGroup(n, RxPlus(RxNotSet(Quotes)))
RxIdent(n) == RxGroup(n, RxPlus(RxSet(UpperChars \cup LowerChars \cup {"_"})))

\* /replace\s*["']([^"']+)["']\s*with\s*["']([^"']+)["']/gi
replacePattern ==
  RxSeq(<<RxLit("replace"), RxStar(RxWs), RxQuote, RxQuoted(1), RxQuote,
          RxStar(RxWs), RxLit("with"), RxStar(RxWs), RxQuote, RxQuoted(2), RxQuote>>)

\* /(?:set|update|change)\s+([a-zA-Z_]+)\s+to\s+["']([^"']+)["']/gi
fieldPattern ==
  RxSeq(<<RxAlt(<<RxLit("set"), RxLit("update"), RxLit("change")>>),
          RxPlus(RxWs), RxIdent(1), RxPlus(RxWs), RxLit("to"), RxPlus(RxWs),
          RxQuote, RxQuoted(2), RxQuote>>)

\* /and\s+([a-zA-Z_]+)\s+to\s+["']([^"']+)["']/gi
andPattern ==
  RxSeq(<<RxLit("and"), RxPlus(RxWs), RxIdent(1), RxPlus(RxWs), RxLit("to"),
          RxPlus(RxWs), RxQuote, RxQuoted(2), RxQuote>>)

ReplaceOp(findText, replaceText) ==
  [type |-> "replace", findText |-> findText, replaceText |-> replaceText]
FieldUpdateOp(fieldName, newValue) ==
  [type |-> "field_update", fieldName |-> fieldName, newValue |-> newValue]

\* the operations one while (exec) loop pushes
replaceOperations(input) ==
  The({[i \in 1..Len(ms) |->
          ReplaceOp(trim(Capture(input, ms[i], 1)), trim(Capture(input, ms[i], 2)))] :
       ms \in {RxAllMatches(replacePattern, input, TRUE, 1)}})

fieldOperations(input, pattern) ==
  The({[i \in 1..Len(ms) |->
          FieldUpdateOp(trim(Capture(input, ms[i], 1)),
                        trim(Capture(input, ms[i], 2)))] :
       ms \in {RxAllMatches(pattern, input, TRUE, 1)}})

\* mutation of parseOperations: the set / update / change matches come first
parseOperations_fieldsFirst(input) ==
  fieldOperations(input, fieldPattern) \o replaceOperations(input)
    \o fieldOperations(input, andPattern)

parseOperations(input) ==
  replaceOperations(input) \o fieldOperations(input, fieldPattern)
    \o fieldOperations(input, andPattern)

\* mutation of parseIsValid: every command is reported valid
parseIsValid_always(operations) == Len(operations) >= 0

\* isValid: operations.length > 0 (line 142)
parseIsValid(operations) == Len(operations) > 0

parseSmartPrompt(input) ==
  The({[originalInput |-> input, operations |-> operations,
        isValid |-> parseIsValid(operations)] :
       operations \in {parseOperations(input)}})

(***************************************************************************)
(* calculateConfidence (part_001 lines 28-57).  The arguments are          *)
(* JavaScript values: Null, a string Str(s), or some other value.          *)
(***************************************************************************)
\* the value is truthy: !suggestion (line 31), context && (lines 35, 49)
Truthy(x) ==
  CASE x.t = "str" -> x.v # ""
    [] x.t = "num" -> x.v # 0
    [] x.t = "null" -> FALSE
    [] OTHER -> TRUE

\* s.split(' '): the pieces between the single spaces of s
SpacesOf(s) == {i \in 1..Len(s) : Ch(s, i) = " "}

\* where the k-th space of s is; 0 before the first, Len(s) + 1 after the last
NthSpace(s, k) ==
  IF k = 0 THEN 0
  ELSE IF k > Cardinality(SpacesOf(s)) THEN Len(s) + 1
  ELSE CHOOSE p \in SpacesOf(s) : Cardinality({q \in SpacesOf(s) : q < p}) = k - 1

splitSpace(s) ==
  [k \in 1..splitSpaceLength(s) |->
     SubSeq(s, NthSpace(s, k - 1) + 1, NthSpace(s, k) - 1)]

\* /^[A-Z]/ (line 41) and /^[A-Z][a-z]+/ (line 43)
leadingCapital == RxSeq(<<RxBol, RxUpper>>)
properNoun == RxSeq(<<RxBol, RxUpper, RxPlus(RxLower)>>)

\* RegExp.prototype.test
test(re, s) == RxExec(re, s, FALSE, 1).found

\* suggestionWords.filter(word => contextWords.includes(word)).length (line 52)
overlap(contextWords, suggestionWords) ==
  Cardinality({i \in DOMAIN suggestionWords :
                 \E j \in DOMAIN contextWords : contextWords[j] = suggestionWords[i]})

\* mutation of clampScore: the score is returned as accumulated
clampScore_none(score) == score

\* Math.min(Math.max(score, 15), 95) (line 56)
clampScore(score) ==
  IF score < 15 THEN 15 ELSE IF score > 95 THEN 95 ELSE score

\* mutation of isShort: only a missing or empty suggestion returns early
isShort_emptyOnly(suggestion) == ~Truthy(suggestion)

\* !suggestion || suggestion.length < 2 (line 31), for null or a string
isShort(suggestion) == ~Truthy(suggestion) \/ Len(suggestion.v) < 2

\* lines 29-54 for strings s (suggestion) and f (findText), ls and lf their
\* lower-case forms; context is absent, empty or a string
accumulate(s, ls, context, f, lf) ==
  50
  + (IF ls # lf THEN 15 ELSE 0)
  + (IF Truthy(context) /\ includes(toLowerCase(context.v), ls) THEN 20 ELSE 0)
  + (IF splitSpaceLength(s) = splitSpaceLength(f) THEN 10 ELSE 0)
  + (IF test(leadingCapital, s) = test(leadingCapital, f) THEN 5 ELSE 0)
  + (IF test(properNoun, s) THEN 5 ELSE 0)
  + (IF 2 * Len(s) >= Len(f) /\ Len(s) <= Len(f) * 2 THEN 5 ELSE 0)
  - (IF Len(s) = 1 THEN 30 ELSE 0)
  + (IF Truthy(context)
       THEN 3 * overlap(splitSpace(toLowerCase(context.v)), splitSpace(ls))
       ELSE 0)

\* the number returned, or the TypeError of calling toLowerCase or split on
\* a value that is not a string (lines 33 and 35)
calculateConfidence(suggestion, context, findText) ==
  IF isShort(suggestion) THEN [threw |-> FALSE, value |-> 25]
  ELSE IF findText.t # "str" \/ (Truthy(context) /\ context.t # "str")
    THEN [threw |-> TRUE, value |-> 0]
  ELSE [threw |-> FALSE,
        value |-> clampScore(The({accumulate(suggestion.v, ls, context,
                                             findText.v, lf) :
                                  ls \in {toLowerCase(suggestion.v)},
                                  lf \in {toLowerCase(findText.v)}}))]

(***************************************************************************)
(* validateWithBrandkit (part_001 lines 193-222).  style is the            *)
(* communication_style of brandkit.json, or Unreadable when the file       *)
(* cannot be read or parsed.  TRUE: the text passes; FALSE: it throws.     *)
(***************************************************************************)
Unreadable == [readable |-> FALSE, formality_level |-> 0, tone |-> 0,
               humor_level |-> 0, complexity_level |-> 0]
Style(f, t, h, c) == [readable |-> TRUE, formality_level |-> f, tone |-> t,
                      humor_level |-> h, complexity_level |-> c]

B2N(b) == IF b THEN 1 ELSE 0

brandScore(text, style) ==
  LET lowerText == toLowerCase(text)
  IN  IF splitSpaceLength(text) <= 3 THEN 3
      ELSE B2N(style.formality_level > 3
                 /\ (includes(lowerText, "please") \/ includes(lowerText, "thank you")))
         + B2N(style.formality_level <= 2
                 /\ (includes(lowerText, "hey") \/ includes(lowerText, "cool")))
         + B2N(style.tone = 2 /\ ~includes(lowerText, "!") /\ ~includes(lowerText, "?"))
         + B2N(style.humor_level > 3
                 /\ (includes(lowerText, "fun") \/ includes(lowerText, "awesome")))
         + B2N(style.complexity_level > 3 /\ splitSpaceLength(text) > 10)

\* mutation of validateWithBrandkit: a score of 2 is rejected as well
validateWithBrandkit_three(text, style) ==
  style.readable /\ ~(brandScore(text, style) < 3)

validateWithBrandkit(text, style) ==
  style.readable /\ ~(brandScore(text, style) < 2)

\* checkBrandGuidelines (part_001 lines 224-227)
checkBrandGuidelines(text, style) == validateWithBrandkit(text, style)

\* the messages of the errors validateWithBrandkit wraps at line 220: the
\* failure to read brandkit.json, the TypeError of null.toLowerCase(), and
\* the error of line 217
ReadFailed == "ENOENT: no such file or directory, open 'brandkit.json'"
NotAString == "Cannot read properties of null (reading 'toLowerCase')"
StyleMismatch == "Text does not match the brand communication style"

\* the message of the error validateWithBrandkit throws for the value text
\* (null or a string), "" when it returns
validateMessage(text, style) ==
  IF ~style.readable THEN "Brandkit validation failed: " \o ReadFailed
  ELSE IF text.t # "str" THEN "Brandkit validation failed: " \o NotAString
  ELSE IF ~validateWithBrandkit(text.v, style)
    THEN "Brandkit validation failed: " \o StyleMismatch
  ELSE ""

(***************************************************************************)
(* The request handlers, between their suspension points                   *)
(***************************************************************************)
\* let authtoken = null (line 13)
NoToken == 0

\* POST /replace, line 652: if (!uid || !findText || !replaceText) -> 400
replaceBodyOk(uid, findText, replaceText) ==
  uid # "" /\ findText # "" /\ replaceText # ""

\* POST /smart-replace, line 568:
\* if (!uid || !operations || !Array.isArray(operations)) -> 400
smartBodyOk(uid, isArray) == uid # "" /\ isArray

\* mutation of replaceAfterLogin: the handler goes on whatever the brand
\* check says
replaceAfterLogin_unchecked(token, replaceText, style) == token # NoToken

\* POST /replace, lines 660-665, run when login() has returned: TRUE when the
\* handler goes on to fetch the entry, FALSE when it throws
replaceAfterLogin(token, replaceText, style) ==
  token # NoToken /\ checkBrandGuidelines(replaceText, style)

\* mutation of smartAfterLogin: the text of every replace operation is
\* checked as /replace checks its text
smartAfterLogin_checked(token, operations, style) ==
  /\ token # NoToken
  /\ \A i \in DOMAIN operations :
       operations[i].type = "replace"
         => checkBrandGuidelines(operations[i].replaceText, style)

\* POST /smart-replace, lines 575-577, run when login() has returned; the
\* handler reads no brandkit and checks no text
smartAfterLogin(token, operations, style) == token # NoToken

\* fieldUpdates[operation.fieldName] = operation.newValue: a name already
\* present keeps its place and takes the new value
putUpdate(fieldUpdates, fieldName, newValue) ==
  IF \E i \in DOMAIN fieldUpdates : fieldUpdates[i][1] = fieldName
    THEN [i \in DOMAIN fieldUpdates |->
            IF fieldUpdates[i][1] = fieldName THEN <<fieldName, newValue>>
            ELSE fieldUpdates[i]]
    ELSE Append(fieldUpdates, <<fieldName, newValue>>)

\* POST /smart-replace, lines 592-601: the loop over the operations.  acc is
\* [threw, entry, fieldUpdates, replaced, steps]; replaced lists the findText
\* of every deepReplace call made, steps the calls of deepReplace and
\* applyFieldUpdates in the order made, each with the entry it was given
\* (on) and the entry it returned (out, null when it threw).
\* lines 595-597: entry = deepReplace(entry, findText, replaceText, ...)
smartReplaceStep(acc, operation) ==
  The({[acc EXCEPT !.threw = out.threw,
                   !.entry = IF out.threw THEN @ ELSE out.value,
                   !.replaced = Append(@, operation.findText),
                   !.steps = Append(@, [fn |-> "deepReplace", on |-> acc.entry,
                                        findText |-> operation.findText,
                                        replaceText |-> operation.replaceText,
                                        out |-> out.value])] :
       out \in {deepReplace(acc.entry, operation.findText, operation.replaceText)}})

\* lines 603-605: entry = applyFieldUpdates(entry, fieldUpdates)
smartUpdateStep(acc, fieldUpdates) ==
  The({[acc EXCEPT !.entry = out,
                   !.steps = Append(@, [fn |-> "applyFieldUpdates",
                                        on |-> acc.entry,
                                        fieldUpdates |-> fieldUpdates,
                                        out |-> out])] :
       out \in {Obj(applyFieldUpdates(acc.entry.v, fieldUpdates))}})

\* mutation of smartStep: a field update is applied where it stands in the
\* list
smartStep_atOnce(acc, operation) ==
  IF operation.type = "replace" THEN smartReplaceStep(acc, operation)
  ELSE IF operation.type = "field_update"
    THEN smartUpdateStep(acc, <<<<operation.fieldName, Str(operation.newValue)>>>>)
  ELSE acc

\* one iteration of the loop of lines 594-601
smartStep(acc, operation) ==
  IF operation.type = "replace" THEN smartReplaceStep(acc, operation)
  ELSE IF operation.type = "field_update"
    THEN [acc EXCEPT !.fieldUpdates = putUpdate(@, operation.fieldName,
                                                Str(operation.newValue))]
  ELSE acc

RECURSIVE smartLoop(_, _, _)
smartLoop(acc, operations, i) ==
  IF i > Len(operations) \/ acc.threw THEN acc
  ELSE The({smartLoop(next, operations, i + 1) :
            next \in {smartStep(acc, operations[i])}})

\* POST /smart-replace, lines 584-605: from the fetched entry to the entry
\* that is PUT
smartOperations(entry, operations) ==
  The({IF acc.threw \/ Len(acc.fieldUpdates) = 0 THEN acc
       ELSE smartUpdateStep(acc, acc.fieldUpdates) :
       acc \in {smartLoop([threw |-> FALSE, entry |-> entry, fieldUpdates |-> <<>>,
                           replaced |-> <<>>, steps |-> <<>>], operations, 1)}})

\* POST /replace, line 684
replaceOperation(entry, findText, replaceText) ==
  smartReplaceStep([threw |-> FALSE, entry |-> entry, fieldUpdates |-> <<>>,
                    replaced |-> <<>>, steps |-> <<>>],
                   ReplaceOp(findText, replaceText))

(***************************************************************************)
(* getSmartReplacement (part_001 lines 59-105) and the operations loop of  *)
(* POST /smart-suggest (lines 499-557)                                     *)
(***************************************************************************)
\* what model.generateContent and response.text() produce: a text, or an
\* error thrown
Generated(text) == [ok |-> TRUE, text |-> text]
GenerateFailed == [ok |-> FALSE, text |-> ""]

\* mutation of getSmartReplacement: the provider's error is not caught
getSmartReplacement_uncaught(generated, context, findText) ==
  [threw |-> ~generated.ok, suggestion |-> Str(trim(generated.text)),
   confidence |-> 0]

\* getSmartReplacement from the awaited generateContent on: lines 92-100
\* when the provider answered, the catch of lines 101-104 when it threw or
\* when calculateConfidence threw
getSmartReplacement(generated, context, findText) ==
  IF ~generated.ok
    THEN [threw |-> FALSE, suggestion |-> Null, confidence |-> 0]
  ELSE The({IF c.threw
              THEN [threw |-> FALSE, suggestion |-> Null, confidence |-> 0]
              ELSE [threw |-> FALSE, suggestion |-> Str(trim(generated.text)),
                    confidence |-> c.value] :
            c \in {calculateConfidence(Str(trim(generated.text)), context,
                                       Str(findText))}})

\* POST /smart-suggest, line 473: if (!uid || !smartPrompt) -> 400
suggestBodyOk(uid, smartPrompt) == uid # "" /\ smartPrompt # ""

\* POST /smart-suggest, lines 480-482, run when login() has returned
suggestAfterLogin(token) == token # NoToken

\* const context = entryResponse.data.entry.body (line 489); an entry
\* without a body gives undefined, which is falsy as null is
contextOf(entry) ==
  IF entry.t = "map" /\ "body" \in DOMAIN entry.v THEN entry.v["body"] ELSE Null

\* lines 512-521 and 532-541: the verdict of checkBrandGuidelines on a value
brandVerdict(value, style) ==
  The({[brandCompliant |-> message = "",
        brandMessage |-> IF message = "" THEN "Brand compliant" ELSE message] :
       message \in {validateMessage(value, style)}})

\* lines 523-530
processedReplace(operation, finalReplacement, confidence, style) ==
  The({[type |-> "replace", findText |-> operation.findText,
        replaceText |-> finalReplacement, confidence |-> confidence,
        brandCompliant |-> verdict.brandCompliant,
        brandMessage |-> verdict.brandMessage] :
       verdict \in {brandVerdict(finalReplacement, style)}})

\* lines 543-549
processedFieldUpdate(operation, style) ==
  The({[type |-> "field_update", fieldName |-> operation.fieldName,
        newValue |-> operation.newValue,
        brandCompliant |-> verdict.brandCompliant,
        brandMessage |-> verdict.brandMessage] :
       verdict \in {brandVerdict(Str(operation.newValue), style)}})

\* line 506: if (!finalReplacement), for a replace operation
needsSuggestion(operation) ==
  operation.type = "replace" /\ operation.replaceText = ""

\* the loop of lines 501-551 from operation i on, up to the next await of
\* getSmartReplacement: the operations processed so far and the index of
\* the operation that waits for a suggestion (Len(operations) + 1 when the
\* loop is over)
RECURSIVE suggestLoop(_, _, _, _)
suggestLoop(processed, operations, i, style) ==
  IF i > Len(operations) \/ needsSuggestion(operations[i])
    THEN [processed |-> processed, at |-> i]
  ELSE suggestLoop(
         Append(processed,
                IF operations[i].type = "replace"
                  THEN processedReplace(operations[i],
                                        Str(operations[i].replaceText), 85, style)
                  ELSE processedFieldUpdate(operations[i], style)),
         operations, i + 1, style)

(***************************************************************************)
(* State                                                                   *)
(***************************************************************************)
VARIABLES
  authtoken,   \* the process-wide session credential (part_001 line 13)
  startup,     \* the login() of process start (line 727): "inflight" or "done"
  brandkit,    \* communication_style of brandkit.json, or Unreadable
  stored,      \* the entry the content repository holds
  req,         \* the requests: handler position, locals and calls made
  menu,        \* the request bodies clients send in this run
  drCall,      \* a call of deepReplace: arguments and outcome
  fuCall,      \* a call of applyFieldUpdates: arguments and outcome
  parseCall,   \* a call of parseSmartPrompt: argument and outcome
  cfCall,      \* calls of calculateConfidence: arguments and outcomes
  vbCall       \* a call of validateWithBrandkit: arguments and outcome

vars == <<authtoken, startup, brandkit, stored, req, menu,
          drCall, fuCall, parseCall, cfCall, vbCall>>

(***************************************************************************)
(* Bounds and the inputs drawn within them                                 *)
(***************************************************************************)
MaxReq == 2       \* concurrent requests
MaxOps == 2       \* operations in one /smart-replace body
MaxDepth == 2     \* nesting depth of the trees given to deepReplace
MaxUpdates == 2   \* fields in one applyFieldUpdates call
MaxClauses == 2   \* clauses in one smart prompt

Requests == 1..MaxReq

\* The repository hands out a new token at every login.  A token is named
\* after the login call that received it: request r's, or the startup one.
TokenOf(r) == r
StartupToken == MaxReq + 1

RECURSIVE SeqsUpTo(_, _)
SeqsUpTo(S, n) ==
  IF n = 0 THEN {<<>>}
  ELSE LET shorter == SeqsUpTo(S, n - 1)
       IN  shorter \cup {Append(q, x) : q \in shorter, x \in S}

ReplaceBody(uid, findText, replaceText) ==
  [uid |-> uid, findText |-> findText, replaceText |-> replaceText]
SmartBody(uid, isArray, operations) ==
  [uid |-> uid, isArray |-> isArray, operations |-> operations]

\* one request at a time, any body
FlowOps == {ReplaceOp("", "x"), ReplaceOp("Acme", "hey a b c"),
            FieldUpdateOp("uid", "e2"), FieldUpdateOp("heading", "Hi")}
SoloMenu ==
  [slots   |-> {1},
   replace |-> {ReplaceBody("e1", "Acme", "Globex"),
                ReplaceBody("e1", "Acme", "hey a b c"),
                ReplaceBody("e1", "(", "Globex"),
                ReplaceBody("e1", "", "Globex"),
                ReplaceBody("e1", "Acme", ""),
                ReplaceBody("", "Acme", "Globex")},
   smart   |-> {SmartBody("e1", TRUE, ops) : ops \in SeqsUpTo(FlowOps, MaxOps)}
                 \cup {SmartBody("", TRUE, <<>>), SmartBody("e1", FALSE, <<>>)}]

\* concurrent requests, a few bodies
ConcurrentMenu ==
  [slots   |-> Requests,
   replace |-> {ReplaceBody("e1", "Acme", "Globex"), ReplaceBody("e1", "c", "k")},
   smart   |-> {SmartBody("e1", TRUE, <<FieldUpdateOp("heading", "Hi")>>)}]

FlowStyles == {Style(1, 2, 1, 1), Style(5, 1, 1, 1), Unreadable}
FlowEntry == Obj([title |-> Str("Acme"), uid |-> Str("e1")])

NoReq == [kind |-> "none", pc |-> "new", uid |-> "", findText |-> "",
          replaceText |-> "", operations |-> <<>>, fetched |-> Null,
          entry |-> Null, replaced |-> <<>>, calls |-> <<>>, status |-> 0,
          failed |-> "none", smartPrompt |-> "", context |-> Null,
          processed |-> <<>>, at |-> 0, generated |-> <<>>, steps |-> <<>>]

Call(op, token) == [op |-> op, token |-> token]
Ops(r) == {req[r].calls[i].op : i \in DOMAIN req[r].calls}
LoginsInFlight ==
  Cardinality({r \in Requests : req[r].pc = "login"})
    + (IF startup = "inflight" THEN 1 ELSE 0)

\* res.status(code).json(...): the handler is over
Respond(r, code, why) ==
  req' = [req EXCEPT ![r] = [@ EXCEPT !.pc = "done", !.status = code,
                                      !.failed = why]]

\* request r can arrive: its slot is free and the slots before it are used
CanArrive(r) ==
  /\ r \in menu.slots
  /\ req[r].pc = "new"
  /\ \A q \in Requests : q < r => req[q].pc # "new"

(***************************************************************************)
(* POST /replace and POST /smart-replace (part_001 lines 565-722).  Each   *)
(* action is the handler's code from one await of a collaborator to the    *)
(* next.                                                                   *)
(***************************************************************************)
\* lines 645-657: the body is checked, then login() is awaited
ReplaceArrive(r) ==
  /\ CanArrive(r)
  /\ \E b \in menu.replace :
       req' = [req EXCEPT ![r] =
                 IF replaceBodyOk(b.uid, b.findText, b.replaceText)
                   THEN [NoReq EXCEPT !.kind = "replace", !.pc = "login",
                                      !.uid = b.uid, !.findText = b.findText,
                                      !.replaceText = b.replaceText]
                   ELSE [NoReq EXCEPT !.kind = "replace", !.pc = "done",
                                      !.uid = b.uid, !.findText = b.findText,
                                      !.replaceText = b.replaceText,
                                      !.status = 400, !.failed = "body"]]
  /\ UNCHANGED <<authtoken, startup, brandkit, stored, menu,
                 drCall, fuCall, parseCall, cfCall, vbCall>>

\* lines 565-573
SmartReplaceArrive(r) ==
  /\ CanArrive(r)
  /\ \E b \in menu.smart :
       req' = [req EXCEPT ![r] =
                 IF smartBodyOk(b.uid, b.isArray)
                   THEN [NoReq EXCEPT !.kind = "smart", !.pc = "login",
                                      !.uid = b.uid, !.operations = b.operations]
                   ELSE [NoReq EXCEPT !.kind = "smart", !.pc = "done",
                                      !.uid = b.uid, !.operations = b.operations,
                                      !.status = 400, !.failed = "body"]]
  /\ UNCHANGED <<authtoken, startup, brandkit, stored, menu,
                 drCall, fuCall, parseCall, cfCall, vbCall>>

\* login() returns a token (lines 342-346); the handler checks it, /replace
\* checks the brand guidelines, and the entry is requested (lines 480-487,
\* 575-582, 660-673)
LoginOk(r) ==
  /\ req[r].pc = "login"
  /\ authtoken' = TokenOf(r)
  /\ req' = [req EXCEPT ![r] =
               IF CASE req[r].kind = "replace" ->
                         replaceAfterLogin(authtoken', req[r].replaceText, brandkit)
                    [] req[r].kind = "smart" ->
                         smartAfterLogin(authtoken', req[r].operations, brandkit)
                    [] req[r].kind = "suggest" -> suggestAfterLogin(authtoken')
                 THEN [@ EXCEPT !.pc = "fetch",
                                !.calls = @ \o <<Call("login", authtoken'),
                                                 Call("fetch", authtoken')>>]
                 ELSE [@ EXCEPT !.pc = "done", !.status = 500,
                                !.failed = "brand",
                                !.calls = Append(@, Call("login", authtoken'))]]
  /\ UNCHANGED <<startup, brandkit, stored, menu, drCall, fuCall, parseCall, cfCall, vbCall>>

\* mutation of LoginFail: the catch of login() clears the shared token
LoginFail_clears(r) ==
  /\ req[r].pc = "login"
  /\ Respond(r, 500, "login")
  /\ authtoken' = NoToken
  /\ UNCHANGED <<startup, brandkit, stored, menu,
                 drCall, fuCall, parseCall, cfCall, vbCall>>

\* login() throws (lines 347-350): the handler's catch answers 500
LoginFail(r) ==
  /\ req[r].pc = "login"
  /\ Respond(r, 500, "login")
  /\ UNCHANGED <<authtoken, startup, brandkit, stored, menu,
                 drCall, fuCall, parseCall, cfCall, vbCall>>

\* the entry arrives; the operations are applied in memory and the PUT is
\* sent (lines 584-619, 675-699)
FetchOk(r) ==
  /\ req[r].pc = "fetch"
  /\ \E res \in {IF req[r].kind = "replace"
                    THEN replaceOperation(stored, req[r].findText, req[r].replaceText)
                    ELSE smartOperations(stored, req[r].operations)} :
         req' = [req EXCEPT ![r] =
                   IF res.threw
                     THEN [@ EXCEPT !.pc = "done", !.status = 500,
                                    !.failed = "pattern", !.fetched = stored,
                                    !.replaced = res.replaced,
                                    !.steps = res.steps]
                     ELSE [@ EXCEPT !.pc = "update", !.fetched = stored,
                                    !.entry = res.entry,
                                    !.replaced = res.replaced,
                                    !.steps = res.steps,
                                    !.calls = Append(@, Call("update", authtoken))]]
  /\ UNCHANGED <<authtoken, startup, brandkit, stored, menu,
                 drCall, fuCall, parseCall, cfCall, vbCall>>

FetchFail(r) ==
  /\ req[r].pc = "fetch"
  /\ Respond(r, 500, "fetch")
  /\ UNCHANGED <<authtoken, startup, brandkit, stored, menu,
                 drCall, fuCall, parseCall, cfCall, vbCall>>

\* mutation of UpdateOk: the repository keeps what it holds when it is no
\* longer the snapshot the request fetched (the first write wins)
UpdateOk_firstWins(r) ==
  /\ req[r].pc = "update"
  /\ stored' = IF stored = req[r].fetched THEN req[r].entry ELSE stored
  /\ req' = [req EXCEPT ![r] =
               [@ EXCEPT !.pc = "publish",
                         !.calls = Append(@, Call("publish", authtoken))]]
  /\ UNCHANGED <<authtoken, startup, brandkit, menu, drCall, fuCall, parseCall, cfCall, vbCall>>

\* the PUT succeeded: the repository holds the new entry; publish is sent
\* (lines 621-631, 704-714)
UpdateOk(r) ==
  /\ req[r].pc = "update"
  /\ stored' = req[r].entry
  /\ req' = [req EXCEPT ![r] =
               [@ EXCEPT !.pc = "publish",
                         !.calls = Append(@, Call("publish", authtoken))]]
  /\ UNCHANGED <<authtoken, startup, brandkit, menu, drCall, fuCall, parseCall, cfCall, vbCall>>

\* mutation of UpdateFail: the failed PUT is swallowed and publish is sent
UpdateFail_publishes(r) ==
  /\ req[r].pc = "update"
  /\ req' = [req EXCEPT ![r] =
               [@ EXCEPT !.pc = "publish",
                         !.calls = Append(@, Call("publish", authtoken))]]
  /\ UNCHANGED <<authtoken, startup, brandkit, stored, menu,
                 drCall, fuCall, parseCall, cfCall, vbCall>>

UpdateFail(r) ==
  /\ req[r].pc = "update"
  /\ Respond(r, 500, "update")
  /\ UNCHANGED <<authtoken, startup, brandkit, stored, menu,
                 drCall, fuCall, parseCall, cfCall, vbCall>>

\* lines 633-636, 716-717
PublishOk(r) ==
  /\ req[r].pc = "publish"
  /\ Respond(r, 200, "none")
  /\ UNCHANGED <<authtoken, startup, brandkit, stored, menu,
                 drCall, fuCall, parseCall, cfCall, vbCall>>

PublishFail(r) ==
  /\ req[r].pc = "publish"
  /\ Respond(r, 500, "publish")
  /\ UNCHANGED <<authtoken, startup, brandkit, stored, menu,
                 drCall, fuCall, parseCall, cfCall, vbCall>>

\* the login() of process start (lines 727-729) returns or fails
StartupLoginOk ==
  /\ startup = "inflight"
  /\ startup' = "done"
  /\ authtoken' = StartupToken
  /\ UNCHANGED <<brandkit, stored, req, menu, drCall, fuCall, parseCall, cfCall, vbCall>>

StartupLoginFail ==
  /\ startup = "inflight"
  /\ startup' = "done"
  /\ UNCHANGED <<authtoken, brandkit, stored, req, menu,
                 drCall, fuCall, parseCall, cfCall, vbCall>>

\* a pure function not called in this run
NotCalled == [done |-> FALSE]

\* process start: no token yet, the startup login() under way, no request
ServerStart ==
  /\ authtoken = NoToken
  /\ startup = "inflight"
  /\ stored = FlowEntry
  /\ req = [r \in Requests |-> NoReq]

FlowInit ==
  /\ ServerStart
  /\ brandkit \in FlowStyles
  /\ drCall = NotCalled /\ fuCall = NotCalled /\ parseCall = NotCalled
  /\ cfCall = NotCalled /\ vbCall = NotCalled

Next ==
  \/ \E r \in Requests : ReplaceArrive(r)
  \/ \E r \in Requests : SmartReplaceArrive(r)
  \/ \E r \in Requests : LoginOk(r)
  \/ \E r \in Requests : LoginFail(r)
  \/ \E r \in Requests : FetchOk(r)
  \/ \E r \in Requests : FetchFail(r)
  \/ \E r \in Requests : UpdateOk(r)
  \/ \E r \in Requests : UpdateFail(r)
  \/ \E r \in Requests : PublishOk(r)
  \/ \E r \in Requests : PublishFail(r)
  \/ StartupLoginOk
  \/ StartupLoginFail

\* one request at a time, with every body of SoloMenu
Init == FlowInit /\ menu = SoloMenu
Spec == Init /\ [][Next]_vars

\* MaxReq concurrent requests
InitConcurrent == FlowInit /\ menu = ConcurrentMenu
SpecConcurrent == InitConcurrent /\ [][Next]_vars

(***************************************************************************)
(* POST /smart-suggest (part_001 lines 470-563)                            *)
(***************************************************************************)
SuggestBody(uid, smartPrompt) == [uid |-> uid, smartPrompt |-> smartPrompt]

\* an operation of the loop has been left behind: the loop goes on to the
\* next await of getSmartReplacement or to the response of lines 553-557
suggestContinue(r, processed, i, generated) ==
  \E res \in {suggestLoop(processed, req[r].operations, i, brandkit)} :
    req' = [req EXCEPT ![r] =
              IF res.at > Len(req[r].operations)
                THEN [@ EXCEPT !.pc = "done", !.status = 200,
                               !.processed = res.processed, !.at = res.at,
                               !.generated = generated]
                ELSE [@ EXCEPT !.pc = "generate", !.processed = res.processed,
                               !.at = res.at, !.generated = generated]]

\* lines 470-478: the body is checked, then login() is awaited
SmartSuggestArrive(r) ==
  /\ CanArrive(r)
  /\ \E b \in menu.suggest :
       req' = [req EXCEPT ![r] =
                 IF suggestBodyOk(b.uid, b.smartPrompt)
                   THEN [NoReq EXCEPT !.kind = "suggest", !.pc = "login",
                                      !.uid = b.uid, !.smartPrompt = b.smartPrompt]
                   ELSE [NoReq EXCEPT !.kind = "suggest", !.pc = "done",
                                      !.uid = b.uid, !.smartPrompt = b.smartPrompt,
                                      !.status = 400, !.failed = "body"]]
  /\ UNCHANGED <<authtoken, startup, brandkit, stored, menu,
                 drCall, fuCall, parseCall, cfCall, vbCall>>

\* lines 489-511: the entry arrives, the prompt is parsed, and the loop runs
\* to the first operation that awaits a suggestion
SuggestFetchOk(r) ==
  /\ req[r].pc = "fetch" /\ req[r].kind = "suggest"
  /\ \E parsed \in {parseSmartPrompt(req[r].smartPrompt)} :
       IF ~parsed.isValid
         THEN req' = [req EXCEPT ![r] =
                        [@ EXCEPT !.pc = "done", !.status = 400,
                                  !.failed = "prompt", !.fetched = stored,
                                  !.context = contextOf(stored)]]
         ELSE \E res \in {suggestLoop(<<>>, parsed.operations, 1, brandkit)} :
                req' = [req EXCEPT ![r] =
                          [@ EXCEPT !.pc = IF res.at > Len(parsed.operations)
                                             THEN "done" ELSE "generate",
                                    !.status = IF res.at > Len(parsed.operations)
                                                 THEN 200 ELSE 0,
                                    !.fetched = stored,
                                    !.context = contextOf(stored),
                                    !.operations = parsed.operations,
                                    !.processed = res.processed,
                                    !.at = res.at]]
  /\ UNCHANGED <<authtoken, startup, brandkit, stored, menu,
                 drCall, fuCall, parseCall, cfCall, vbCall>>

\* the suggestion provider has answered or failed: getSmartReplacement
\* returns (or throws), the operation is finished and the loop goes on
\* (lines 507-530); an error thrown reaches the catch of lines 559-562
SuggestionArrives(r, generated) ==
  \E aiResult \in {getSmartReplacement(generated, req[r].context,
                                       req[r].operations[req[r].at].findText)} :
    IF aiResult.threw
      THEN req' = [req EXCEPT ![r] =
                     [@ EXCEPT !.pc = "done", !.status = 500,
                               !.failed = "generate",
                               !.generated =
                                 Append(@, [at |-> req[r].at, ok |-> generated.ok])]]
      ELSE suggestContinue(
             r,
             Append(req[r].processed,
                    processedReplace(req[r].operations[req[r].at],
                                     aiResult.suggestion, aiResult.confidence,
                                     brandkit)),
             req[r].at + 1,
             Append(req[r].generated, [at |-> req[r].at, ok |-> generated.ok]))

GenerateTexts == {"Globex", " Zulu Corp ", ""}

\* generateContent resolves and response.text() returns (lines 90-93)
GenerateOk(r) ==
  /\ req[r].pc = "generate"
  /\ \E text \in GenerateTexts : SuggestionArrives(r, Generated(text))
  /\ UNCHANGED <<authtoken, startup, brandkit, stored, menu,
                 drCall, fuCall, parseCall, cfCall, vbCall>>

\* generateContent or response.text() throws
GenerateFail(r) ==
  /\ req[r].pc = "generate"
  /\ SuggestionArrives(r, GenerateFailed)
  /\ UNCHANGED <<authtoken, startup, brandkit, stored, menu,
                 drCall, fuCall, parseCall, cfCall, vbCall>>

SuggestPrompts ==
  {"replace \"Acme\" with \" \"",
   "replace \"Acme\" with \"Globex\"",
   "replace \"Acme\" with \" \" and title to \"Hi\"",
   "set title to \"hey a b c\" replace \"Acme\" with \" \"",
   "replace \"a\" with \" \" replace \"b\" with \" \"",
   "hello",
   ""}

SuggestMenu ==
  [slots   |-> {1},
   replace |-> {},
   smart   |-> {},
   suggest |-> {SuggestBody("e1", p) : p \in SuggestPrompts}
                 \cup {SuggestBody("", "hello")}]

SuggestEntry == Obj([title |-> Str("Acme"), uid |-> Str("e1"),
                     body |-> Str("Acme makes Globex things")])

InitSuggest ==
  /\ authtoken = NoToken
  /\ startup = "inflight"
  /\ stored \in {FlowEntry, SuggestEntry}
  /\ req = [r \in Requests |-> NoReq]
  /\ brandkit \in FlowStyles
  /\ menu = SuggestMenu
  /\ drCall = NotCalled /\ fuCall = NotCalled /\ parseCall = NotCalled
  /\ cfCall = NotCalled /\ vbCall = NotCalled

NextSuggest ==
  \/ \E r \in Requests : SmartSuggestArrive(r)
  \/ \E r \in Requests : LoginOk(r)
  \/ \E r \in Requests : LoginFail(r)
  \/ \E r \in Requests : SuggestFetchOk(r)
  \/ \E r \in Requests : FetchFail(r)
  \/ \E r \in Requests : GenerateOk(r)
  \/ \E r \in Requests : GenerateFail(r)
  \/ StartupLoginOk
  \/ StartupLoginFail

SpecSuggest == InitSuggest /\ [][NextSuggest]_vars

(***************************************************************************)
(* The pure functions, each called once on arguments drawn within the      *)
(* bounds.  The server stands at process start throughout.                 *)
(***************************************************************************)
ServerIdle == ServerStart /\ brandkit = Unreadable /\ menu = SoloMenu

\* deepReplace -------------------------------------------------------------
DrLeaves == {Str("Acme"), Num(7)}

\* the trees of nesting depth at most d: a leaf, a one-element sequence, or
\* a mapping with an ordinary key and a protected one
RECURSIVE DrTrees(_)
DrTrees(d) ==
  IF d = 0 THEN DrLeaves
  ELSE The({DrLeaves \cup {Arr(<<x>>) : x \in sub}
              \cup {Obj([title |-> x, uid |-> y]) : x \in sub, y \in sub} :
            sub \in {DrTrees(d - 1)}})

DrFindTexts == {"Acme", "A.me", "(", ""}
DrReplaceTexts == {"Globex"}

InitDeepReplace ==
  /\ ServerIdle
  /\ fuCall = NotCalled /\ parseCall = NotCalled
  /\ cfCall = NotCalled /\ vbCall = NotCalled
  /\ drCall \in {[done |-> FALSE, obj |-> obj, findText |-> findText,
                  replaceText |-> replaceText, threw |-> FALSE, value |-> Null] :
                 obj \in DrTrees(MaxDepth), findText \in DrFindTexts,
                 replaceText \in DrReplaceTexts}

CallDeepReplace ==
  /\ ~drCall.done
  /\ \E out \in {deepReplace(drCall.obj, drCall.findText, drCall.replaceText)} :
       drCall' = [drCall EXCEPT !.done = TRUE, !.threw = out.threw,
                                !.value = out.value]
  /\ UNCHANGED <<authtoken, startup, brandkit, stored, req, menu, fuCall, parseCall, cfCall, vbCall>>

NextDeepReplace == CallDeepReplace
SpecDeepReplace == InitDeepReplace /\ [][NextDeepReplace]_vars

\* deepReplace there and back -----------------------------------------------
\* drCall.given is the tree as the caller built it, drCall.obj the caller's
\* tree as it is now: deepReplace assigns to no property of obj
RtStrings == {"Acme", "Acme rocks", "ACME rocks", "Acme and Zulu", "bx",
              "Acme met John Smith"}

\* a string, a sequence around it, a mapping with it under an ordinary and
\* a protected key, a mapping of a sequence and a mapping, and values that
\* are not strings
RtTrees ==
  {Str(s) : s \in RtStrings}
    \cup {Arr(<<Str(s), Num(7)>>) : s \in RtStrings}
    \cup {Obj([title |-> Str(s), uid |-> Str(s)]) : s \in RtStrings}
    \cup {Obj([title |-> Arr(<<Str(s), Null, Bool(TRUE), Num(7)>>),
                meta |-> Obj([body |-> Str(s), created_at |-> Str(s)]),
                uid |-> Str(s)]) : s \in RtStrings}
    \cup {Null, Bool(FALSE), Num(0), Arr(<<>>)}

\* <<findText, replaceText>> of the first call
RtPairs == {<<"Acme", "Zulu">>, <<"Acme", "Globex">>, <<"x", "bb">>,
            <<"Acme", "">>, <<"rocks", "Rolls">>, <<"Nobody", "Zulu">>}

InitRoundTrip ==
  /\ ServerIdle
  /\ fuCall = NotCalled /\ parseCall = NotCalled
  /\ cfCall = NotCalled /\ vbCall = NotCalled
  /\ drCall \in {[done |-> FALSE, obj |-> obj, findText |-> pair[1],
                  replaceText |-> pair[2], threw |-> FALSE, value |-> Null,
                  given |-> obj,
                  back |-> [done |-> FALSE, threw |-> FALSE, value |-> Null]] :
                 obj \in RtTrees, pair \in RtPairs}

\* deepReplace(result, replaceText, findText): the call in the other direction
CallDeepReplaceBack ==
  /\ drCall.done /\ ~drCall.threw /\ ~drCall.back.done
  /\ \E out \in {deepReplace(drCall.value, drCall.replaceText, drCall.findText)} :
       drCall' = [drCall EXCEPT !.back = [done |-> TRUE, threw |-> out.threw,
                                          value |-> out.value]]
  /\ UNCHANGED <<authtoken, startup, brandkit, stored, req, menu,
                 fuCall, parseCall, cfCall, vbCall>>

NextRoundTrip == CallDeepReplace \/ CallDeepReplaceBack
SpecRoundTrip == InitRoundTrip /\ [][NextRoundTrip]_vars

\* deepReplace on one string, replacement texts with "$" -------------------
VbmStrings == {"Acme", "acme and ACME", "Price of Acme", "Zulu", ""}
VbmFindTexts == {"Acme", "me"}
VbmReplaceTexts == {"Globex", "$&", "$$", "$1", "US$", "$" \o Backquote,
                    "$" \o Apostrophe, "a$$b", "$&$&", "$"}

InitVerbatim ==
  /\ ServerIdle
  /\ fuCall = NotCalled /\ parseCall = NotCalled
  /\ cfCall = NotCalled /\ vbCall = NotCalled
  /\ drCall \in {[done |-> FALSE, obj |-> Str(s), findText |-> findText,
                  replaceText |-> replaceText, threw |-> FALSE, value |-> Null] :
                 s \in VbmStrings, findText \in VbmFindTexts,
                 replaceText \in VbmReplaceTexts}

NextVerbatim == CallDeepReplace
SpecVerbatim == InitVerbatim /\ [][NextVerbatim]_vars

\* deepReplace on one string with an anchor --------------------------------
\* drCall.linkIn is the value of `result` when line 235 is reached
LkAnchors ==
  {"<a href=\"Acme\">Home</a>",
   "<a class=\"k\" href=\"Acme\">Home</a>",
   "<a href=\"Acme\" target=\"_blank\">Home</a>",
   "<a href=\"https://acme.io\">Acme</a>",
   "<a href=\"/home\" id=\"n\">Acme</a>",
   "<a href=\"/about\">About</a>",
   "<a href=\"AcAcmeme\">Go</a>",
   "<A HREF=\"/home\">Acme</A>"}
LkStrings == LkAnchors \cup {"See " \o a \o " now" : a \in LkAnchors}
LkPairs == {<<"Acme", "Acme">>, <<"Acme", "Globex">>, <<"Acme", "">>,
            <<"Home", "Start">>}

InitLinks ==
  /\ ServerIdle
  /\ fuCall = NotCalled /\ parseCall = NotCalled
  /\ cfCall = NotCalled /\ vbCall = NotCalled
  /\ drCall \in {[done |-> FALSE, obj |-> Str(s), findText |-> pair[1],
                  replaceText |-> pair[2], threw |-> FALSE, value |-> Null,
                  linkIn |-> ""] :
                 s \in LkStrings, pair \in LkPairs}

CallDeepReplaceString ==
  /\ ~drCall.done /\ drCall.obj.t = "str"
  /\ \E out \in {deepReplace(drCall.obj, drCall.findText, drCall.replaceText)} :
       drCall' = [drCall EXCEPT
                    !.done = TRUE, !.threw = out.threw, !.value = out.value,
                    !.linkIn = IF out.threw THEN ""
                               ELSE beforeLinks(drCall.obj.v, drCall.findText,
                                                drCall.replaceText)]
  /\ UNCHANGED <<authtoken, startup, brandkit, stored, req, menu, fuCall, parseCall, cfCall, vbCall>>

NextLinks == CallDeepReplaceString
SpecLinks == InitLinks /\ [][NextLinks]_vars

\* deepReplace on the entry of the end-to-end example -----------------------
FrStrings == {"Report by John Smith", "Contact John Smith at john@x.com",
              "john@x.com", "Acme", "Zulu Corp"}
FrEntry ==
  Obj([title |-> Str("Report by John Smith"),
       body |-> Str("Contact John Smith at john@x.com"),
       uid |-> Str("e1")])
FrTrees ==
  {FrEntry}
    \cup {Str(s) : s \in FrStrings}
    \cup {Arr(<<Str(s), Num(7)>>) : s \in FrStrings}
    \cup {Obj([title |-> Str(s), uid |-> Str(s)]) : s \in FrStrings}
FrPairs == {<<"John Smith", "Jane Doe">>, <<"A.me", "Globex">>,
            <<"Acme", "Globex">>, <<"(", "Globex">>}

InitFrame ==
  /\ ServerIdle
  /\ fuCall = NotCalled /\ parseCall = NotCalled
  /\ cfCall = NotCalled /\ vbCall = NotCalled
  /\ drCall \in {[done |-> FALSE, obj |-> obj, findText |-> pair[1],
                  replaceText |-> pair[2], threw |-> FALSE, value |-> Null] :
                 obj \in FrTrees, pair \in FrPairs}

NextFrame == CallDeepReplace
SpecFrame == InitFrame /\ [][NextFrame]_vars

\* deepReplace twice with the same texts -----------------------------------
IdStrings == {"Acme rocks", "aab", "AcAcmeme", "John John Smith",
              "John Smith Jones", "Zulu", "<a href=\"Acme\">Acme</a>"}
IdTrees ==
  {Str(s) : s \in IdStrings}
    \cup {Arr(<<Str(s), Num(7)>>) : s \in IdStrings}
    \cup {Obj([title |-> Str(s), uid |-> Str(s)]) : s \in IdStrings}
IdPairs == {<<"Acme", "Globex">>, <<"ab", "b">>, <<"Acme", "">>,
            <<"John Smith", "Smith">>, <<"Acme", "$&">>}

InitIdempotent ==
  /\ ServerIdle
  /\ fuCall = NotCalled /\ parseCall = NotCalled
  /\ cfCall = NotCalled /\ vbCall = NotCalled
  /\ drCall \in {[done |-> FALSE, obj |-> obj, findText |-> pair[1],
                  replaceText |-> pair[2], threw |-> FALSE, value |-> Null,
                  again |-> [done |-> FALSE, threw |-> FALSE, value |-> Null]] :
                 obj \in IdTrees, pair \in IdPairs}

\* deepReplace(result, findText, replaceText): the same call on the result
CallDeepReplaceAgain ==
  /\ drCall.done /\ ~drCall.threw /\ ~drCall.again.done
  /\ \E out \in {deepReplace(drCall.value, drCall.findText, drCall.replaceText)} :
       drCall' = [drCall EXCEPT !.again = [done |-> TRUE, threw |-> out.threw,
                                           value |-> out.value]]
  /\ UNCHANGED <<authtoken, startup, brandkit, stored, req, menu,
                 fuCall, parseCall, cfCall, vbCall>>

NextIdempotent == CallDeepReplace \/ CallDeepReplaceAgain
SpecIdempotent == InitIdempotent /\ [][NextIdempotent]_vars

\* applyFieldUpdates -------------------------------------------------------
FuKeys == {"title", "name", "uid", "foo", "contact"}
FuNames == {"heading", "NAME", "uid", "UID", "Foo", "email"}

\* the entries: every set of keys, each holding the same old value
FuEntries == {[k \in K |-> Str("old")] : K \in SUBSET FuKeys}

\* the i-th requested value: "v1", "v2", ...
FuValue(i) == Str("v" \o DigitSeq[i + 1])

\* Object.entries of an updates mapping: at most n pairs, no name twice
RECURSIVE FuNameSeqs(_)
FuNameSeqs(n) ==
  IF n = 0 THEN {<<>>}
  ELSE The({shorter \cup {Append(q, x) : q \in shorter, x \in FuNames} :
            shorter \in {FuNameSeqs(n - 1)}})

FuUpdates ==
  {[i \in DOMAIN q |-> <<q[i], FuValue(i)>>] :
     q \in {q \in FuNameSeqs(MaxUpdates) :
              \A i, j \in DOMAIN q : q[i] = q[j] => i = j}}

InitFieldUpdates ==
  /\ ServerIdle
  /\ drCall = NotCalled /\ parseCall = NotCalled
  /\ cfCall = NotCalled /\ vbCall = NotCalled
  /\ fuCall \in {[done |-> FALSE, entry |-> entry, fieldUpdates |-> fieldUpdates,
                  out |-> entry] :
                 entry \in FuEntries, fieldUpdates \in FuUpdates}

CallApplyFieldUpdates ==
  /\ ~fuCall.done
  /\ fuCall' = [fuCall EXCEPT
                  !.done = TRUE,
                  !.out = applyFieldUpdates(fuCall.entry, fuCall.fieldUpdates)]
  /\ UNCHANGED <<authtoken, startup, brandkit, stored, req, menu, drCall, parseCall, cfCall, vbCall>>

NextFieldUpdates == CallApplyFieldUpdates
SpecFieldUpdates == InitFieldUpdates /\ [][NextFieldUpdates]_vars

\* parseSmartPrompt --------------------------------------------------------
PromptClauses ==
  {"replace \"a\" with \"b\"",
   "REPLACE 'Old Co'with\" New Co \"",
   "replace \" \" with \"x\"",
   "replace \"\" with \"b\"",
   "set title to \"Hi\"",
   "update url to ' /x '",
   "and name to \"N\"",
   "set title to \"Hi'",
   "replace \"a' with \"b'",
   "change it",
   "hello"}

\* the prompts: at most n clauses, one space between two
RECURSIVE Prompts(_)
Prompts(n) ==
  IF n = 0 THEN {""}
  ELSE The({shorter \cup {IF p = "" THEN c ELSE p \o " " \o c :
                          p \in shorter, c \in PromptClauses} :
            shorter \in {Prompts(n - 1)}})

InitParse ==
  /\ ServerIdle
  /\ drCall = NotCalled /\ fuCall = NotCalled
  /\ cfCall = NotCalled /\ vbCall = NotCalled
  /\ parseCall \in {[done |-> FALSE, input |-> input,
                     out |-> [originalInput |-> "", operations |-> <<>>,
                              isValid |-> FALSE]] :
                    input \in Prompts(MaxClauses)}

CallParseSmartPrompt ==
  /\ ~parseCall.done
  /\ parseCall' = [parseCall EXCEPT !.done = TRUE,
                                    !.out = parseSmartPrompt(parseCall.input)]
  /\ UNCHANGED <<authtoken, startup, brandkit, stored, req, menu, drCall, fuCall, cfCall, vbCall>>

NextParse == CallParseSmartPrompt
SpecParse == InitParse /\ [][NextParse]_vars

\* calculateConfidence -----------------------------------------------------
MaxCalls == 2     \* calls of calculateConfidence on the same arguments

CfSuggestions == {Null, Str(""), Str("G"), Str("Globex"), Str("Globex Corp"),
                  Str("acme"), Str("globex corp")}
CfContexts == {Null, Str(""), Str("We like Globex Corp here"), Num(7)}
CfFindTexts == {Null, Str("Acme"), Str("Acme Inc"), Str("a")}

InitConfidence ==
  /\ ServerIdle
  /\ drCall = NotCalled /\ fuCall = NotCalled /\ parseCall = NotCalled
  /\ vbCall = NotCalled
  /\ cfCall \in {[done |-> FALSE, suggestion |-> suggestion, context |-> context,
                  findText |-> findText, outs |-> <<>>] :
                 suggestion \in CfSuggestions, context \in CfContexts,
                 findText \in CfFindTexts}

CallCalculateConfidence ==
  /\ Len(cfCall.outs) < MaxCalls
  /\ cfCall' = [cfCall EXCEPT
                  !.done = TRUE,
                  !.outs = Append(@, calculateConfidence(cfCall.suggestion,
                                                         cfCall.context,
                                                         cfCall.findText))]
  /\ UNCHANGED <<authtoken, startup, brandkit, stored, req, menu,
                 drCall, fuCall, parseCall, vbCall>>

NextConfidence == CallCalculateConfidence
SpecConfidence == InitConfidence /\ [][NextConfidence]_vars

\* validateWithBrandkit ----------------------------------------------------
VbTexts ==
  {"ok",
   "a b c",
   "a  b  c",
   "a\tb\tc\td\te",
   "please fix the report",
   "PLEASE fix the report!",
   "thank you for the fun",
   "hey that is cool",
   "this is awesome fun stuff",
   "is it ok now?",
   "one two three four five six seven eight nine ten eleven",
   "please one two three four five six seven eight nine ten"}

\* the profiles: each level on either side of its threshold
VbStyles ==
  {Style(f, t, h, c) : f \in {2, 3, 4}, t \in {1, 2}, h \in {3, 4}, c \in {3, 4}}
    \cup {Unreadable}

InitValidate ==
  /\ ServerIdle
  /\ drCall = NotCalled /\ fuCall = NotCalled /\ parseCall = NotCalled
  /\ cfCall = NotCalled
  /\ vbCall \in {[done |-> FALSE, text |-> text, style |-> style,
                  ok |-> FALSE, message |-> ""] :
                 text \in VbTexts, style \in VbStyles}

CallValidateWithBrandkit ==
  /\ ~vbCall.done
  /\ vbCall' = [vbCall EXCEPT
                  !.done = TRUE,
                  !.ok = validateWithBrandkit(vbCall.text, vbCall.style),
                  !.message = validateMessage(Str(vbCall.text), vbCall.style)]
  /\ UNCHANGED <<authtoken, startup, brandkit, stored, req, menu,
                 drCall, fuCall, parseCall, cfCall>>

NextValidate == CallValidateWithBrandkit
SpecValidate == InitValidate /\ [][NextValidate]_vars

(***************************************************************************)
(* Properties                                                              *)
(***************************************************************************)
\* in and out have the same shape and agree under every protected key of
\* every mapping the traversal reaches
RECURSIVE ProtectedKept(_, _)
ProtectedKept(in, out) ==
  CASE in.t = "seq" ->
         /\ out.t = "seq" /\ DOMAIN out.v = DOMAIN in.v
         /\ \A i \in DOMAIN in.v : ProtectedKept(in.v[i], out.v[i])
    [] in.t = "map" ->
         /\ out.t = "map" /\ DOMAIN out.v = DOMAIN in.v
         /\ \A key \in DOMAIN in.v :
              IF key \in ProtectedKeys THEN out.v[key] = in.v[key]
              ELSE ProtectedKept(in.v[key], out.v[key])
    [] OTHER -> TRUE

\* C1: in the tree deepReplace returns, the value under each protected key,
\* at every mapping level the traversal reaches, is the value of the input,
\* whatever findText and replaceText are and even when the value contains
\* findText.
C1_ProtectedKeysKept ==
  drCall.done /\ ~drCall.threw => ProtectedKept(drCall.obj, drCall.value)

\* C1, its case: a mapping inside a mapping, "Acme" under title and under
\* uid at both levels; only the inner title is replaced
C1_Witness ==
  /\ drCall.done /\ ~drCall.threw /\ drCall.findText = "Acme"
  /\ drCall.obj =
       Obj([title |-> Obj([title |-> Str("Acme"), uid |-> Str("Acme")]),
            uid |-> Str("Acme")])
  /\ drCall.value =
       Obj([title |-> Obj([title |-> Str("Globex"), uid |-> Str("Acme")]),
            uid |-> Str("Acme")])

\* C2: after applyFieldUpdates every protected key of the entry holds the
\* value it held before, also when a requested field name is a protected
\* key name.
C2_ProtectedKeysKept ==
  fuCall.done =>
    \A k \in ProtectedKeys \cap DOMAIN fuCall.entry : fuCall.out[k] = fuCall.entry[k]

\* request r is a /replace whose text the brand check rejects, or whose
\* brand check fails
Rejected(r) ==
  req[r].kind = "replace" /\ ~validateWithBrandkit(req[r].replaceText, brandkit)

\* C3: a /replace request whose replaceText the compliance check rejects
\* (or whose check fails) never calls update or publish, ends in a failure
\* response, and leaves the stored entry as it was.
C3_RejectedReplaceAborts ==
  \A r \in Requests :
    Rejected(r) =>
      /\ Ops(r) \cap {"update", "publish"} = {}
      /\ req[r].pc \notin {"update", "publish"}
      /\ req[r].pc = "done" => req[r].status \in {400, 500}
      /\ stored = FlowEntry

\* C3, its case: a well-formed /replace logged in, was rejected by the brand
\* check and answered 500 having called login only
C3_Witness ==
  \E r \in Requests :
    /\ Rejected(r) /\ brandkit.readable
    /\ req[r].pc = "done" /\ req[r].status = 500 /\ req[r].failed = "brand"
    /\ Ops(r) = {"login"}

\* C4: at most one login call is in flight at any time.
C4_SingleFlightLogin == LoginsInFlight <= 1

\* the tree deepReplace would return if pass 1 took findText literally
RECURSIVE LiteralDeepReplace(_, _, _)
LiteralDeepReplace(obj, findText, replaceText) ==
  CASE obj.t = "str" ->
         Str(The({replaceLinks(r4, findText, replaceText) :
                  r4 \in {replaceEntity(r3, companyRegex, findText, replaceText) :
                  r3 \in {replaceEntity(r2, personRegex, findText, replaceText) :
                  r2 \in {replaceEntity(r1, emailRegex, findText, replaceText) :
                  r1 \in {replaceWithString(obj.v, RxLit(findText), TRUE,
                                            replaceText)}}}}}))
    [] obj.t = "seq" ->
         Arr([i \in DOMAIN obj.v |->
                LiteralDeepReplace(obj.v[i], findText, replaceText)])
    [] obj.t = "map" ->
         Obj([key \in DOMAIN obj.v |->
                IF key \in ProtectedKeys THEN obj.v[key]
                ELSE LiteralDeepReplace(obj.v[key], findText, replaceText)])
    [] OTHER -> obj

\* C5: for a non-empty findText, metacharacters included, deepReplace does
\* not throw and returns the tree in which pass 1 replaced exactly the
\* case-insensitive literal occurrences of findText.
C5_FindTextLiteral ==
  drCall.done /\ drCall.findText # "" =>
    /\ ~drCall.threw
    /\ drCall.value =
         LiteralDeepReplace(drCall.obj, drCall.findText, drCall.replaceText)

\* request r carries a Replace operation with an empty findText
HasEmptyFind(r) ==
  \/ req[r].kind = "replace" /\ req[r].findText = ""
  \/ /\ req[r].kind = "smart"
     /\ \E i \in DOMAIN req[r].operations :
          /\ req[r].operations[i].type = "replace"
          /\ req[r].operations[i].findText = ""

\* C6: a request with a Replace operation whose findText is empty makes no
\* deepReplace call and no update or publish call.
C6_EmptyFindRejected ==
  \A r \in Requests :
    HasEmptyFind(r) =>
      /\ req[r].replaced = <<>>
      /\ Ops(r) \cap {"update", "publish"} = {}

\* C7: after applyFieldUpdates, for each requested field some key of the
\* entry holds its new value.
C7_EveryUpdateApplied ==
  fuCall.done =>
    \A i \in DOMAIN fuCall.fieldUpdates :
      \E k \in DOMAIN fuCall.out : fuCall.out[k] = fuCall.fieldUpdates[i][2]

\* request r is a /smart-replace with a replace operation whose text the
\* brand check would reject
CarriesRejectedText(r) ==
  /\ req[r].kind = "smart"
  /\ \E i \in DOMAIN req[r].operations :
       /\ req[r].operations[i].type = "replace"
       /\ ~validateWithBrandkit(req[r].operations[i].replaceText, brandkit)

IsReplace(operation) == operation.type = "replace"
FindTexts(operations) == [i \in DOMAIN operations |-> operations[i].findText]

\* C8: a /smart-replace request is never stopped by a compliance verdict:
\* it fails only when a collaborator or a pattern fails, and once it has
\* sent its update every replace operation has been applied by deepReplace,
\* and what it updates and publishes is the entry with all operations applied.
C8_SmartReplaceUnchecked ==
  \A r \in Requests :
    req[r].kind = "smart" =>
      /\ req[r].failed \in {"none", "body", "login", "fetch", "pattern",
                             "update", "publish"}
      /\ "update" \in Ops(r) =>
           /\ req[r].replaced = FindTexts(SelectSeq(req[r].operations, IsReplace))
           /\ req[r].entry =
                smartOperations(req[r].fetched, req[r].operations).entry
      /\ req[r].status = 200 =>
           /\ {"update", "publish"} \subseteq Ops(r)
           /\ stored = req[r].entry

\* C8, its case: a request whose replacement text the brand check rejects
\* was answered 200 and the stored entry carries that text
C8_Witness ==
  \E r \in Requests :
    /\ CarriesRejectedText(r) /\ brandkit.readable
    /\ req[r].operations = <<ReplaceOp("Acme", "hey a b c")>>
    /\ req[r].pc = "done" /\ req[r].status = 200
    /\ stored = Obj([title |-> Str("hey a b c"), uid |-> Str("e1")])

\* C9: parseSmartPrompt returns the input as originalInput, and isValid is
\* true exactly when the operations sequence is not empty.
C9_ParsedCommand ==
  parseCall.done =>
    /\ parseCall.out.originalInput = parseCall.input
    /\ parseCall.out.isValid <=> Len(parseCall.out.operations) > 0

\* C9, its case: a prompt that is not empty and yields no operation
C9_Witness ==
  /\ parseCall.done /\ parseCall.input = "change it hello"
  /\ parseCall.out.operations = <<>> /\ ~parseCall.out.isValid

\* C10: every Replace operation of a parsed command has a non-empty findText
\* and every FieldUpdate operation a non-empty fieldName.
C10_NamesNonEmpty ==
  parseCall.done =>
    \A i \in DOMAIN parseCall.out.operations :
      /\ parseCall.out.operations[i].type = "replace"
           => parseCall.out.operations[i].findText # ""
      /\ parseCall.out.operations[i].type = "field_update"
           => parseCall.out.operations[i].fieldName # ""

C12_ShortSuggestion ==
  cfCall.done /\ (cfCall.suggestion.t = "null" \/ Len(cfCall.suggestion.v) < 2) =>
    \A i \in DOMAIN cfCall.outs : cfCall.outs[i] = [threw |-> FALSE, value |-> 25]

\* C12, its case: a one-character suggestion with a null findText and a
\* context that is not a string
C12_Witness ==
  /\ cfCall.suggestion = Str("G") /\ cfCall.findText = Null
  /\ cfCall.context = Num(7)
  /\ cfCall.done /\ cfCall.outs[1] = [threw |-> FALSE, value |-> 25]

\* the number of words of s that white space of any kind and amount delimits
WsWordCount(s) ==
  Cardinality({i \in 1..Len(s) :
                 ~IsSpaceAt(s, i) /\ (i = 1 \/ IsSpaceAt(s, i - 1))})

\* how many of the five checks hold of text under style
ChecksHeld(text, style) ==
  Cardinality(
    {n \in 1..5 :
       CASE n = 1 -> /\ style.formality_level > 3
                     /\ \/ includes(toLowerCase(text), "please")
                        \/ includes(toLowerCase(text), "thank you")
         [] n = 2 -> /\ style.formality_level <= 2
                     /\ \/ includes(toLowerCase(text), "hey")
                        \/ includes(toLowerCase(text), "cool")
         [] n = 3 -> /\ style.tone = 2
                     /\ ~includes(text, "!") /\ ~includes(text, "?")
         [] n = 4 -> /\ style.humor_level > 3
                     /\ \/ includes(toLowerCase(text), "fun")
                        \/ includes(toLowerCase(text), "awesome")
         [] n = 5 -> /\ style.complexity_level > 3
                     /\ splitSpaceLength(text) > 10})

\* C13: under every style profile, a text of 3 or fewer words delimited by
\* white space of any kind and amount is accepted, and a text of more than 3
\* such words is judged by the five checks, never by the short-circuit.
C13_ShortTextAccepted ==
  vbCall.done /\ vbCall.style.readable =>
    IF WsWordCount(vbCall.text) <= 3 THEN vbCall.ok
    ELSE vbCall.ok <=> ChecksHeld(vbCall.text, vbCall.style) >= 2

RECURSIVE StringsOf(_)
StringsOf(obj) ==
  CASE obj.t = "str" -> {obj.v}
    [] obj.t = "seq" -> UNION {StringsOf(obj.v[i]) : i \in DOMAIN obj.v}
    [] obj.t = "map" ->
         UNION {StringsOf(obj.v[key]) : key \in DOMAIN obj.v \ ProtectedKeys}
    [] OTHER -> {}

MetaChars == {".", "^", "$", "*", "+", "?", "(", ")", "[", "]", "{", "}", "|", "\\"}
HasMeta(s) == \E i \in 1..Len(s) : Ch(s, i) \in MetaChars

\* no string of the tree holds an email, a person, a company or an anchor
NoEntityMatches(obj) ==
  \A s \in StringsOf(obj) :
    /\ RxAllMatches(emailRegex, s, FALSE, 1) = <<>>
    /\ RxAllMatches(personRegex, s, FALSE, 1) = <<>>
    /\ RxAllMatches(companyRegex, s, FALSE, 1) = <<>>
    /\ RxAllMatches(linkRegex, s, TRUE, 1) = <<>>

\* wherever x occurs in a string of the tree, whatever the case, it is
\* spelled as x
ExactCaseOnly(obj, x) ==
  \A s \in StringsOf(obj) :
    \A i \in 1..(Len(s) - Len(x) + 1) :
      toLowerCase(SubSeq(s, i, i + Len(x) - 1)) = toLowerCase(x)
        => SubSeq(s, i, i + Len(x) - 1) = x

\* no character of y occurs, in either case, in a string of the tree
NoCharOf(obj, y) ==
  \A s \in StringsOf(obj) :
    \A i \in 1..Len(y) : ~includes(toLowerCase(s), toLowerCase(Ch(y, i)))

RECURSIVE SameStructure(_, _, _, _)
SameStructure(in, out, findText, replaceText) ==
  CASE in.t = "str" ->
         out = Str(deepReplaceString(in.v, findText, replaceText))
    [] in.t = "seq" ->
         /\ out.t = "seq" /\ Len(out.v) = Len(in.v)
         /\ \A i \in DOMAIN in.v :
              SameStructure(in.v[i], out.v[i], findText, replaceText)
    [] in.t = "map" ->
         /\ out.t = "map" /\ DOMAIN out.v = DOMAIN in.v
         /\ \A key \in DOMAIN in.v \ ProtectedKeys :
              SameStructure(in.v[key], out.v[key], findText, replaceText)
    [] OTHER -> out = in

FirstMemberSet(entry, out, members, newValue) ==
  \E i \in DOMAIN members :
    /\ members[i] \in DOMAIN entry
    /\ \A j \in 1..(i - 1) : members[j] \notin DOMAIN entry
    /\ DOMAIN out = DOMAIN entry
    /\ out[members[i]] = newValue
    /\ \A k \in DOMAIN entry \ {members[i]} : out[k] = entry[k]

\* C17: when the one requested field name matches an alias group, whatever
\* its case, and the entry has a member key of the group, applyFieldUpdates
\* sets the first member key the entry has, in the group's order, creates no
\* key and leaves every other key as it was.
C17_AliasResolution ==
  fuCall.done /\ Len(fuCall.fieldUpdates) = 1 =>
    \A g \in DOMAIN AliasGroups :
      /\ toLowerCase(fuCall.fieldUpdates[1][1]) \in AliasGroups[g].names
      /\ \E i \in DOMAIN AliasGroups[g].members :
           AliasGroups[g].members[i] \in DOMAIN fuCall.entry
      => FirstMemberSet(fuCall.entry, fuCall.out, AliasGroups[g].members,
                        fuCall.fieldUpdates[1][2])

\* C17, its case: the entry has title and name, the request names NAME, and
\* title, the first of title / heading / name, takes the value
C17_Witness ==
  /\ fuCall.done
  /\ fuCall.entry = [title |-> Str("old"), name |-> Str("old")]
  /\ fuCall.fieldUpdates = <<<<"NAME", Str("v1")>>>>
  /\ fuCall.out = [title |-> Str("v1"), name |-> Str("old")]

\* C18: a failure of the suggestion provider is no fault of the request:
\* getSmartReplacement is called at most once for an operation, a
\* /smart-suggest request never fails because of it, and the response lists
\* the operation with no suggestion (null) and confidence 0.
C18_SuggestionFailureRecovered ==
  \A r \in Requests :
    req[r].kind = "suggest" =>
      /\ \A i, j \in DOMAIN req[r].generated :
           req[r].generated[i].at = req[r].generated[j].at => i = j
      /\ req[r].failed \in {"none", "body", "login", "fetch", "prompt"}
      /\ req[r].pc = "done" /\ req[r].generated # <<>> =>
           /\ req[r].status = 200
           /\ Len(req[r].processed) = Len(req[r].operations)
      /\ \A i \in DOMAIN req[r].generated :
           ~req[r].generated[i].ok =>
             /\ Len(req[r].processed) >= req[r].generated[i].at
             /\ \E done \in {req[r].processed[req[r].generated[i].at]} :
                  /\ done.type = "replace"
                  /\ done.findText = req[r].operations[req[r].generated[i].at].findText
                  /\ done.replaceText = Null
                  /\ done.confidence = 0

\* C18, its case: the provider failed for the first operation of a prompt
\* with two; the request was answered 200 with both operations listed
C18_Witness ==
  \E r \in Requests :
    /\ req[r].kind = "suggest" /\ req[r].pc = "done" /\ req[r].status = 200
    /\ req[r].generated = <<[at |-> 1, ok |-> FALSE]>>
    /\ Len(req[r].processed) = 2
    /\ req[r].processed[1].replaceText = Null
    /\ req[r].processed[1].confidence = 0
    /\ req[r].processed[2].type = "field_update"

IsFieldUpdate(operation) == operation.type = "field_update"

\* the entry step i of steps was given is the entry the step before it
\* returned, the fetched entry for the first
ChainedFrom(fetched, steps) ==
  \A i \in DOMAIN steps :
    steps[i].on = IF i = 1 THEN fetched ELSE steps[i - 1].out

\* the first Len(replaces) steps are the deepReplace calls of the Replace
\* operations, in list order
ReplacesInOrder(steps, replaces) ==
  /\ Len(steps) >= Len(replaces)
  /\ \A i \in DOMAIN replaces :
       /\ steps[i].fn = "deepReplace"
       /\ steps[i].findText = replaces[i].findText
       /\ steps[i].replaceText = replaces[i].replaceText

\* batch holds every field of updates once, with the value of its last
\* operation
IsBatchOf(batch, updates) ==
  /\ {batch[i][1] : i \in DOMAIN batch} = {updates[i].fieldName : i \in DOMAIN updates}
  /\ \A i, j \in DOMAIN batch : batch[i][1] = batch[j][1] => i = j
  /\ \A i \in DOMAIN batch :
       \E j \in DOMAIN updates :
         /\ updates[j].fieldName = batch[i][1]
         /\ batch[i][2] = Str(updates[j].newValue)
         /\ \A k \in (j + 1)..Len(updates) : updates[k].fieldName # batch[i][1]

\* after the deepReplace steps comes one applyFieldUpdates step with the
\* batch of all FieldUpdate operations when there is one, and nothing else
BatchLast(steps, replaces, updates) ==
  IF updates = <<>> THEN Len(steps) = Len(replaces)
  ELSE /\ Len(steps) = Len(replaces) + 1
       /\ steps[Len(steps)].fn = "applyFieldUpdates"
       /\ IsBatchOf(steps[Len(steps)].fieldUpdates, updates)

\* update and publish are each called at most once, publish after update
UpdateThenPublishOnce(calls) ==
  /\ \A i, j \in DOMAIN calls :
       calls[i].op = calls[j].op /\ calls[i].op \in {"update", "publish"} => i = j
  /\ \A i, j \in DOMAIN calls :
       calls[i].op = "update" /\ calls[j].op = "publish" => i < j
  /\ \A j \in DOMAIN calls :
       calls[j].op = "publish" => \E i \in DOMAIN calls : calls[i].op = "update"

\* C19: a /smart-replace request applies its Replace operations with
\* deepReplace in list order, each to the entry the one before returned;
\* then, when there is a FieldUpdate operation anywhere in the list, it
\* calls applyFieldUpdates once with the batch of them all; then it calls
\* update with the resulting entry and publish, each at most once, in that
\* order.
C19_SmartReplaceOrder ==
  \A r \in Requests :
    req[r].kind = "smart" =>
      /\ UpdateThenPublishOnce(req[r].calls)
      /\ ChainedFrom(req[r].fetched, req[r].steps)
      /\ "update" \in Ops(r) =>
           /\ ReplacesInOrder(req[r].steps, SelectSeq(req[r].operations, IsReplace))
           /\ BatchLast(req[r].steps, SelectSeq(req[r].operations, IsReplace),
                        SelectSeq(req[r].operations, IsFieldUpdate))
           /\ req[r].entry = IF req[r].steps = <<>> THEN req[r].fetched
                             ELSE req[r].steps[Len(req[r].steps)].out

\* C19, its case: a FieldUpdate listed before a Replace is applied after
\* it, and the entry was updated and published
C19_Witness ==
  \E r \in Requests :
    /\ req[r].kind = "smart" /\ req[r].status = 200
    /\ req[r].operations =
         <<FieldUpdateOp("heading", "Hi"), ReplaceOp("Acme", "hey a b c")>>
    /\ Len(req[r].steps) = 2
    /\ req[r].steps[1].fn = "deepReplace"
    /\ req[r].steps[1].out = Obj([title |-> Str("hey a b c"), uid |-> Str("e1")])
    /\ req[r].steps[2].fn = "applyFieldUpdates"
    /\ stored = Obj([title |-> Str("Hi"), uid |-> Str("e1")])
    /\ [i \in DOMAIN req[r].calls |-> req[r].calls[i].op]
         = <<"login", "fetch", "update", "publish">>

\* operations lo + 1 .. lo + Len(ms) are the operations of the matches ms of
\* one pattern, one for each match, from left to right
OneForEachMatch(input, operations, lo, ms, type) ==
  /\ \A i \in 1..(Len(ms) - 1) : ms[i].start < ms[i + 1].start
  /\ \A i \in DOMAIN ms :
       /\ operations[lo + i].type = type
       /\ IF type = "replace"
            THEN /\ operations[lo + i].findText = trim(Capture(input, ms[i], 1))
                 /\ operations[lo + i].replaceText = trim(Capture(input, ms[i], 2))
            ELSE /\ operations[lo + i].fieldName = trim(Capture(input, ms[i], 1))
                 /\ operations[lo + i].newValue = trim(Capture(input, ms[i], 2))

\* C20: the operations of a parsed command are the Replace matches, then
\* the set / update / change matches, then the "and <identifier> to"
\* matches, each group from left to right and one operation for each match,
\* wherever the matches stand in the input.
C20_OrderedByPattern ==
  parseCall.done =>
    \E rs \in {RxAllMatches(replacePattern, parseCall.input, TRUE, 1)} :
    \E fs \in {RxAllMatches(fieldPattern, parseCall.input, TRUE, 1)} :
    \E as \in {RxAllMatches(andPattern, parseCall.input, TRUE, 1)} :
      /\ Len(parseCall.out.operations) = Len(rs) + Len(fs) + Len(as)
      /\ OneForEachMatch(parseCall.input, parseCall.out.operations, 0, rs, "replace")
      /\ OneForEachMatch(parseCall.input, parseCall.out.operations, Len(rs), fs,
                         "field_update")
      /\ OneForEachMatch(parseCall.input, parseCall.out.operations,
                         Len(rs) + Len(fs), as, "field_update")

\* C20, its case: the Replace clause stands after the set clause in the
\* input and before it in the operations
C20_Witness ==
  /\ parseCall.done
  /\ parseCall.input = "set title to \"Hi\" replace \"a\" with \"b\""
  /\ parseCall.out.operations = <<ReplaceOp("a", "b"), FieldUpdateOp("title", "Hi")>>

\* a quoted value stands in the input: a straight quote, one or more
\* characters that are no quotes, and the same quote again
HasQuotedValue(input) ==
  \E i \in 1..Len(input) : \E j \in (i + 2)..Len(input) :
    /\ Ch(input, i) \in Quotes
    /\ Ch(input, j) = Ch(input, i)
    /\ \A k \in (i + 1)..(j - 1) : Ch(input, k) \notin Quotes

\* C21: a value is recognized only between two quotes of the same kind: a
\* command in which no value stands between matching quotes (every opening
\* quote is closed by the other kind) yields no operation.
C21_MatchingQuotes ==
  (parseCall.done /\ ~HasQuotedValue(parseCall.input))
    => parseCall.out.operations = <<>>

\* s with every case-insensitive match of findText replaced by exactly the
\* characters of replaceText
VerbatimPassOne(s, findText, replaceText) ==
  The({Splice(s, ms, [i \in 1..Len(ms) |-> replaceText]) :
       ms \in {RxAllMatches(RegExpOf(findText), s, TRUE, 1)}})

\* passes 2 to 5 of the string rewrite, applied to the result r1 of pass 1
LaterPasses(r1, findText, replaceText) ==
  The({replaceLinks(r4, findText, replaceText) :
       r4 \in {replaceEntity(r3, companyRegex, findText, replaceText) :
       r3 \in {replaceEntity(r2, personRegex, findText, replaceText) :
       r2 \in {replaceEntity(r1, emailRegex, findText, replaceText)}}}})

\* C22: pass 1 puts replaceText in verbatim, whatever its characters ("$"
\* followed by "&", a digit or "$" included): the rewritten string is what
\* the later passes make of the string in which every case-insensitive
\* occurrence of findText became exactly the characters of replaceText.
C22_VerbatimReplaceText ==
  (drCall.done /\ drCall.obj.t = "str") =>
    /\ ~drCall.threw
    /\ drCall.value =
         Str(LaterPasses(VerbatimPassOne(drCall.obj.v, drCall.findText,
                                         drCall.replaceText),
                         drCall.findText, drCall.replaceText))

\* s with the characters lo .. hi - 1 replaced by t
WithSpan(s, lo, hi, t) == SubSeq(s, 1, lo - 1) \o t \o SubSeq(s, hi, Len(s))

\* the href the claim gives an anchor whose link text is findText
RewrittenHref(href, findText, replaceText) ==
  IF includes(toLowerCase(href), toLowerCase(findText))
    THEN VerbatimPassOne(href, findText, replaceText)
    ELSE href

\* out is a single anchor with the given href and link text
IsAnchorWith(out, href, text) ==
  \E m \in {RxExec(linkRegex, out, TRUE, 1)} :
    /\ m.found /\ m.start = 1 /\ m.end = Len(out) + 1
    /\ Capture(out, m, 1) = href
    /\ Capture(out, m, 2) = text

\* C23: the hyperlink pass on a string with one anchor.  If the href equals
\* findText, the string changes in the href value only, which becomes
\* replaceText; otherwise, if the link text equals findText, the anchor
\* becomes one whose text is replaceText and whose href is rewritten only
\* if it contains findText case-insensitively, and nothing around the
\* anchor changes; otherwise the pass returns the string unchanged.
C23_HyperlinkPass ==
  (drCall.done /\ ~drCall.threw) =>
    \E in \in {drCall.linkIn} : \E out \in {drCall.value.v} :
    \E ms \in {RxAllMatches(linkRegex, in, TRUE, 1)} :
      Len(ms) = 1 =>
        \E m \in {ms[1]} :
        \E href \in {Capture(in, m, 1)} : \E text \in {Capture(in, m, 2)} :
          IF href = drCall.findText
            THEN out = WithSpan(in, m.caps[1][1], m.caps[1][2], drCall.replaceText)
          ELSE IF text = drCall.findText
            THEN \E tail \in {Len(in) - m.end + 1} :
                   /\ Len(out) >= m.start - 1 + tail
                   /\ SubSeq(out, 1, m.start - 1) = SubSeq(in, 1, m.start - 1)
                   /\ SubSeq(out, Len(out) - tail + 1, Len(out))
                        = SubSeq(in, m.end, Len(in))
                   /\ IsAnchorWith(SubSeq(out, m.start, Len(out) - tail),
                                   RewrittenHref(href, drCall.findText,
                                                 drCall.replaceText),
                                   drCall.replaceText)
          ELSE out = in

\* every string of the tree in with no case-insensitive occurrence of
\* findText stands unchanged at the same place of the tree out
RECURSIVE FrameKept(_, _, _)
FrameKept(in, out, findText) ==
  CASE in.t = "str" ->
         ~includes(toLowerCase(in.v), toLowerCase(findText)) => out = in
    [] in.t = "seq" ->
         /\ out.t = "seq" /\ DOMAIN out.v = DOMAIN in.v
         /\ \A i \in DOMAIN in.v : FrameKept(in.v[i], out.v[i], findText)
    [] in.t = "map" ->
         /\ out.t = "map" /\ DOMAIN out.v = DOMAIN in.v
         /\ \A key \in DOMAIN in.v : FrameKept(in.v[key], out.v[key], findText)
    [] OTHER -> out = in

\* C24: a string with no case-insensitive occurrence of findText is
\* returned unchanged by all passes of deepReplace, and the end-to-end
\* example gives title "Report by Jane Doe", body "Contact Jane Doe at
\* john@x.com" and the uid it had.
C24_OnlyWhereFound ==
  (drCall.done /\ ~drCall.threw) =>
    /\ FrameKept(drCall.obj, drCall.value, drCall.findText)
    /\ (drCall.obj = FrEntry /\ drCall.findText = "John Smith"
          /\ drCall.replaceText = "Jane Doe")
         => drCall.value = Obj([title |-> Str("Report by Jane Doe"),
                                body |-> Str("Contact Jane Doe at john@x.com"),
                                uid |-> Str("e1")])

\* C25: requests are not isolated.  A successful update stores the entry
\* the request computed from the snapshot it fetched, whatever the
\* repository holds by then, so of two requests that fetched the same
\* snapshot the later update overwrites the earlier one (last write wins).
C25_LastWriteWins ==
  [][\A r \in Requests :
       (req[r].pc = "update" /\ req'[r].pc = "publish") =>
         /\ stored' = req[r].entry
         /\ req[r].kind = "replace" =>
              req[r].entry = deepReplace(req[r].fetched, req[r].findText,
                                         req[r].replaceText).value]_vars

\* C25, its case: two /replace requests fetched the same snapshot, both
\* answered 200, and the repository holds the second one's entry, in which
\* the first one's edit ("Acme" to "Globex") is missing
C25_Witness ==
  \E r, q \in Requests :
    /\ r # q
    /\ req[r].kind = "replace" /\ req[q].kind = "replace"
    /\ req[r].status = 200 /\ req[q].status = 200
    /\ req[r].fetched = FlowEntry /\ req[q].fetched = FlowEntry
    /\ req[r].findText = "Acme" /\ req[r].replaceText = "Globex"
    /\ req[r].entry = Obj([title |-> Str("Globex"), uid |-> Str("e1")])
    /\ req[q].findText = "c" /\ req[q].replaceText = "k"
    /\ stored = req[q].entry
    /\ stored = Obj([title |-> Str("Akme"), uid |-> Str("e1")])

\* the collaborator calls of request r, by name, in the order made
CallOps(r) == [i \in DOMAIN req[r].calls |-> req[r].calls[i].op]

\* the calls of r are login, fetch, update, publish in this order, each at
\* most once and none after a call that failed, and r answers 200 only
\* after all four
CallsInOrder(r) ==
  /\ \E n \in 0..4 : CallOps(r) = SubSeq(<<"login", "fetch", "update", "publish">>, 1, n)
  /\ req[r].status = 200 =>
       /\ req[r].failed = "none"
       /\ CallOps(r) = <<"login", "fetch", "update", "publish">>
  /\ req[r].failed = "login" => CallOps(r) = <<>>
  /\ req[r].failed = "fetch" => CallOps(r) = <<"login", "fetch">>
  /\ req[r].failed = "update" => CallOps(r) = <<"login", "fetch", "update">>

IsEdit(r) == req[r].kind \in {"replace", "smart"}
ReportsFailure(r) == req[r].pc = "done" /\ req[r].status # 200

\* C26: within one /replace or /smart-replace request the calls are login,
\* fetch, update, publish in this order, each at most once and each only
\* after the one before succeeded; the request answers 200 only if publish
\* succeeded; and whenever it reports failure the repository holds the
\* entry it held before the request.
C26_CallOrder ==
  \A r \in Requests :
    IsEdit(r) =>
      /\ CallsInOrder(r)
      /\ ReportsFailure(r) => stored = FlowEntry

\* C26 as the code has it: a request that reports failure has left the
\* repository's entry as it was unless its update had succeeded, that is
\* unless the call that failed is publish; then the repository holds the
\* updated entry although the request answers 500.
C26_CallOrderAmended ==
  \A r \in Requests :
    IsEdit(r) =>
      /\ CallsInOrder(r)
      /\ req[r].status = 200 => stored = req[r].entry
      /\ (ReportsFailure(r) /\ req[r].failed # "publish") => stored = FlowEntry
      /\ (ReportsFailure(r) /\ req[r].failed = "publish") =>
           /\ CallOps(r) = <<"login", "fetch", "update", "publish">>
           /\ stored = req[r].entry

\* C26, its case: publish failed after the update had stored "Globex"
C26_Witness ==
  \E r \in Requests :
    /\ req[r].kind = "replace" /\ ReportsFailure(r)
    /\ req[r].status = 500 /\ req[r].failed = "publish"
    /\ CallOps(r) = <<"login", "fetch", "update", "publish">>
    /\ stored = Obj([title |-> Str("Globex"), uid |-> Str("e1")])
    /\ stored # FlowEntry

\* the calls request r makes in the step at hand
NewCalls(r) == (Len(req[r].calls) + 1)..Len(req'[r].calls)

OccursIn(obj, x) ==
  \E s \in StringsOf(obj) : includes(toLowerCase(s), toLowerCase(x))

\* C28 as stated: for every x without metacharacters and every y that does
\* not contain x case-insensitively, deepReplace applied to its own result
\* with the same x and y returns that result.
C28_Idempotent ==
  (/\ drCall.again.done
   /\ ~HasMeta(drCall.findText)
   /\ ~includes(toLowerCase(drCall.replaceText), toLowerCase(drCall.findText)))
  => /\ ~drCall.again.threw
     /\ drCall.again.value = drCall.value

\* C28, amended: the second call returns the result of the first whenever,
\* besides, that result holds no case-insensitive occurrence of x in a
\* string outside the protected keys.
C28_IdempotentAmended ==
  (/\ drCall.again.done
   /\ ~HasMeta(drCall.findText)
   /\ ~includes(toLowerCase(drCall.replaceText), toLowerCase(drCall.findText))
   /\ ~OccursIn(drCall.value, drCall.findText))
  => /\ ~drCall.again.threw
     /\ drCall.again.value = drCall.value

\* C28, its case: "Acme" became "Globex" under title and stayed under uid,
\* and the second call changed nothing
C28_Witness ==
  /\ drCall.again.done
  /\ drCall.findText = "Acme" /\ drCall.replaceText = "Globex"
  /\ drCall.obj = Obj([title |-> Str("Acme rocks"), uid |-> Str("Acme rocks")])
  /\ drCall.value = Obj([title |-> Str("Globex rocks"), uid |-> Str("Acme rocks")])
  /\ drCall.again.value = drCall.value

====
